---- MODULE Spec2Model ----
(***************************************************************************)
(* Model of the story pipeline of vid-story-generator:                     *)
(*   StoryService.startProject / generateFullStory   (story.service.ts)    *)
(*   TtsQueueService.enqueue / processQueue          (tts-queue.service)   *)
(*   CleanupService.cleanupOldAssets / recoverStuckProcesses               *)
(*   StoryController.startProject / generateStory / retryGeneration        *)
(*   LogsService.getLogStream / emitLog              (logs.service.ts)     *)
(*   ApiKeyRollingService.getNext...Key              (api-key-rolling)     *)
(*   textToProsodySegments                           (punctuation-splitter)*)
(*   generateSafeSlug, generateUniqueSlug            (file-naming.ts)      *)
(*   AiService.callAIWithRetry                       (ai.service.ts)       *)
(*                                                                         *)
(* One invocation of generateFullStory is a "run".  JavaScript runs one    *)
(* callback at a time, so a run only interleaves with other runs, with the *)
(* queue, with the sweeper and with the asset cleanup at its awaits; each  *)
(* action below is the code between two awaits that matter.                *)
(*                                                                         *)
(* Abstractions: a text column is modelled by whether it is filled; a path *)
(* column by whether it is non-null (the path itself is a function of the  *)
(* project and the scene order); an audio file by its duration; the        *)
(* collaborators (text generation, image generation, speech synthesis,     *)
(* ffmpeg) answer nondeterministically with success or failure.            *)
(***************************************************************************)
EXTENDS Integers, Sequences, FiniteSets, TLC

\* ---------------------------------------------------------------- bounds
MaxRuns == 2
MaxBatches == 3
NumScenes == 2
MaxDuration == 2
MaxAudioTenths == 20
MaxClips == 3
MaxTextLen == 4
MaxObservers == 1
MaxKeys == 2
MaxKeyCalls == 3
MaxStarts == 2
MaxTopicLen == 2
MaxAiRetries == 2

\* ------------------------------------------------------ program constants
maxRetries == 3
HNS_PER_MS == 10000
RetryDelayMs == 2000
VIDEO_FPS == 24
TopicLength == 50
SlugLength == 50
SafetyLimit == 100

NULL == 0 - 1

Runs == 1..MaxBatches
Projects == 1..MaxBatches
Orders == 1..NumScenes
Durations == 1..MaxDuration

\* what synthesizeSpeech reports as wordBoundaries: nothing (a provider without
\* word timing), or words with their offset in the audio and their duration,
\* in units of 100 ns; the last word may start after the estimated duration
Spoken == <<[offset |-> 0, duration |-> 4000], [offset |-> 15000, duration |-> 4000]>>

WordLists == {<<>>, Spoken}

\* what a rejected synthesis call carries: an error that may pass (a timeout,
\* a 5xx, a rate limit) or one that will not (authentication, quota)
ErrorKinds == {"transient", "fatal"}

\* the Status Flow: the position of a status on the way to COMPLETED
StatusRank(s) ==
  CASE s = "PENDING" -> 1
    [] s = "STORY_PROMPT_READY" -> 2
    [] s = "GENERATING_SCENES" -> 3
    [] s = "GENERATING_IMAGES" -> 4
    [] s = "GENERATING_TTS" -> 5
    [] s = "RENDERING_VIDEO" -> 6
    [] s = "COMPLETED" -> 7

SweptStatuses ==
  {"GENERATING_SCENES", "GENERATING_IMAGES", "GENERATING_TTS", "RENDERING_VIDEO"}

VARIABLES
  project,      \* StoryProject rows, in creation order; stale is updatedAt being
                \* older than the sweeper's cutoff
  scenes,       \* StoryScene rows of each project, in creation order (index = id)
  logs,         \* StoryLog rows of each project
  disk,         \* files under ./storage; imageOf is the scene from whose prompt
                \* the image file of an order was generated
  queue,        \* TtsQueueService.queue (run ids of the queued batches)
  isProcessing, \* TtsQueueService.isProcessing
  running,      \* batches whose task() has been called and has not settled
  enqOrder,     \* history: batches in the order enqueue was called
  startOrder,   \* history: batches in the order their task was started
  run,          \* the generateFullStory invocations
  env           \* the surroundings explored: the requests the clients still send,
                \* the durations and the word boundaries the speech provider
                \* reports, the errors it raises
VARIABLE
  ffmpeg        \* the FfmpegService call under way, with its arguments, the
                \* filters built for it and the frames zoompan has produced
VARIABLE
  text          \* the textToProsodySegments call under way: the narration, the
                \* position of the pattern in it, the segments pushed so far
VARIABLE
  stream        \* LogsService.logSubjects: the Subject of each project, its
                \* observers, the events passed to next and the events observed
VARIABLE
  keys          \* ApiKeyRollingService: the three key lists and indices, and
                \* the calls made so far with what they returned
VARIABLE
  starts        \* the startProject calls under way, each with its request, the
                \* slug it is looking up and its collision counter
VARIABLE
  ai            \* AiService: maxRetries and the callAIWithRetry request under
                \* way, with its frames, its failedKeys and the calls it made

vars == <<project, scenes, logs, disk, queue, isProcessing, running,
          enqOrder, startOrder, run, env, ffmpeg, text, keys, stream, starts, ai>>

\* ------------------------------------------------------------ rows, files
\* a project as startProject creates it for a topic; NumScenes stands for the
\* totalImages of the request
NewProject ==
  [status |-> "PENDING", titleGenerated |-> FALSE, characterDescriptions |-> FALSE,
   videoPath |-> FALSE, srtPath |-> FALSE,
   totalImages |-> NumScenes, storyMode |-> "topic", projectSlug |-> <<>>,
   stale |-> FALSE]

\* storyScene.create({ projectId, order, narration })
NewScene(o, narration) ==
  [order |-> o, narration |-> narration, imagePrompt |-> FALSE, prosodyData |-> FALSE,
   imagePath |-> FALSE, audioPath |-> FALSE,
   startTimeMs |-> NULL, endTimeMs |-> NULL]

\* StartStoryDto: the story mode and the narrations the caller supplies; a
\* narration is a string, the empty one included (@IsString({ each: true }))
\* A string is the sequence of its characters.
TopicDto == [storyMode |-> "topic", topic |-> <<"a">>, existingNarrations |-> <<>>]

NarrationTexts == {<<>>, <<"a">>, <<"b">>}

NarrationDtos ==
  {[storyMode |-> "narrations", topic |-> <<>>, existingNarrations |-> l] :
     l \in UNION {[1..n -> NarrationTexts] : n \in 0..NumScenes}}

\* the requests of clients that choose their topic
SlugTopics == UNION {[1..n -> {"A", "a", " ", "!"}] : n \in 0..MaxTopicLen}

SlugDtos ==
  {[storyMode |-> "topic", topic |-> t, existingNarrations |-> <<>>] : t \in SlugTopics}

\* ------------------------------------------------------------ project slug
Whitespace == {" "}

RECURSIVE TrimStart(_)
TrimStart(s) ==
  IF s # <<>> /\ Head(s) \in Whitespace THEN TrimStart(Tail(s)) ELSE s

RECURSIVE TrimEnd(_)
TrimEnd(s) ==
  IF s # <<>> /\ s[Len(s)] \in Whitespace THEN TrimEnd(SubSeq(s, 1, Len(s) - 1)) ELSE s

\* String.prototype.trim
Trim(s) == TrimEnd(TrimStart(s))

\* String.prototype.substring(0, end)
Substring(s, end) == SubSeq(s, 1, IF Len(s) < end THEN Len(s) ELSE end)

UpperCase == [A |-> "a", C |-> "c", S |-> "s", U |-> "u"]

\* String.prototype.toLowerCase
ToLowerCase(s) ==
  [i \in 1..Len(s) |-> IF s[i] \in DOMAIN UpperCase THEN UpperCase[s[i]] ELSE s[i]]

\* s.replace(/[S]+/g, with): every maximal run of characters of S becomes with
ReplaceRuns(s, S, with) ==
  LET at == [i \in 1..Len(s) |-> [char |-> s[i], first |-> i = 1 \/ s[i - 1] \notin S]]
      kept == SelectSeq(at, LAMBDA x : x.char \notin S \/ x.first)
  IN  [i \in 1..Len(kept) |-> IF kept[i].char \in S THEN with ELSE kept[i].char]

SlugChars ==
  {"a", "b", "c", "d", "e", "f", "g", "h", "i", "j", "k", "l", "m", "n", "o", "p",
   "q", "r", "s", "t", "u", "v", "w", "x", "y", "z", "_",
   "0", "1", "2", "3", "4", "5", "6", "7", "8", "9"}

RECURSIVE StripUnderscores(_)
\* s.replace(/^_+|_+$/g, '')
StripUnderscores(s) ==
  IF s # <<>> /\ Head(s) = "_" THEN StripUnderscores(Tail(s))
  ELSE IF s # <<>> /\ s[Len(s)] = "_" THEN StripUnderscores(SubSeq(s, 1, Len(s) - 1))
  ELSE s

generateSafeSlug(topic) ==
  LET spaced == ReplaceRuns(Trim(ToLowerCase(topic)), Whitespace, "_")
      plain == SelectSeq(spaced, LAMBDA c : c \in SlugChars)
      slug == Substring(StripUnderscores(ReplaceRuns(plain, {"_"}, "_")), SlugLength)
  IN  IF slug = <<>> THEN <<"s", "t", "o", "r", "y">> ELSE slug

DigitChars == <<"0", "1", "2", "3", "4", "5", "6", "7", "8", "9">>

RECURSIVE NumberToString(_)
\* Number.prototype.toString of a natural number
NumberToString(n) ==
  IF n < 10 THEN <<DigitChars[n + 1]>>
  ELSE NumberToString(n \div 10) \o <<DigitChars[(n % 10) + 1]>>

\* String.prototype.padStart
PadStart(s, length, char) ==
  IF Len(s) >= length THEN s ELSE [i \in 1..(length - Len(s)) |-> char] \o s

\* what new Date() and Date.now() give on a day of January 1970
Clock(day) == [year |-> 1970, month |-> 1, date |-> day, now |-> (day - 1) * 86400000]

\* getFullYear() + (getMonth() + 1) padded + getDate() padded
DateStr(clock) ==
  NumberToString(clock.year) \o PadStart(NumberToString(clock.month), 2, "0")
                      \o PadStart(NumberToString(clock.date), 2, "0")

\* the topic startProject derives from the request
Topic(dto) ==
  LET topic ==
        IF dto.storyMode = "narrations" /\ Len(dto.existingNarrations) > 0
        THEN IF Substring(dto.existingNarrations[1], TopicLength) # <<>>
             THEN Substring(dto.existingNarrations[1], TopicLength)
             ELSE <<"C", "u", "s", "t", "o", "m", " ", "S", "t", "o", "r", "y">>
        ELSE dto.topic
  IN  IF topic = <<>>
      THEN <<"U", "n", "t", "i", "t", "l", "e", "d", " ", "S", "t", "o", "r", "y">>
      ELSE topic

\* generateUniqueSlug before its loop
FirstCandidate(topic) ==
  [pc |-> "find", baseSlug |-> generateSafeSlug(topic), slug |-> generateSafeSlug(topic),
   counter |-> 1]

\* prisma.storyProject.findFirst({ where: { projectSlug: slug } })
FindFirst(rows, slug) == \E p \in 1..Len(rows) : rows[p].projectSlug = slug

\* one pass of the loop body after findFirst has found a row
NextCandidate(g, clock) ==
  LET slug == IF g.counter = 1
              THEN g.baseSlug \o <<"_">> \o DateStr(clock)
              ELSE g.baseSlug \o <<"_">> \o DateStr(clock) \o <<"_">> \o NumberToString(g.counter)
      counter == g.counter + 1
  IN  IF counter > SafetyLimit
      THEN [g EXCEPT !.slug = g.baseSlug \o <<"_">> \o NumberToString(clock.now),
                     !.counter = counter, !.pc = "create"]
      ELSE [g EXCEPT !.slug = slug, !.counter = counter]

\* the loop from a candidate on: out at the first slug findFirst does not find
LoopStep(g, rows, clock) ==
  IF ~FindFirst(rows, g.slug) THEN [g EXCEPT !.pc = "create"] ELSE NextCandidate(g, clock)

RECURSIVE Loop(_, _, _)
Loop(g, rows, clock) ==
  IF g.pc = "create" THEN g.slug ELSE Loop(LoopStep(g, rows, clock), rows, clock)

\* generateUniqueSlug when no other call comes in between
generateUniqueSlug(topic, rows, clock) == Loop(FirstCandidate(topic), rows, clock)

NoStarts == [c \in 1..MaxStarts |-> [pc |-> "idle"]]

Entry(level, code, stage, scene) ==
  [level |-> level, code |-> code, stage |-> stage, scene |-> scene]

Info(code) == Entry("INFO", code, "", 0)

NoError == [stage |-> "", scene |-> 0]

IdleRun ==
  [proj |-> 0, pc |-> "idle", chars |-> FALSE, media |-> <<>>,
   imgSt |-> "none", pending |-> {}, audSt |-> "none", needAudio |-> <<>>,
   ai |-> 0, attempt |-> 0, phase |-> "", results |-> <<>>,
   err |-> NoError, exhausted |-> 0, calls |-> {}, synth |-> {}, synthOk |-> {},
   quiet |-> FALSE, resumes |-> 0,
   hasCompleteWordBoundaries |-> TRUE, globalWordBoundaries |-> <<>>, heard |-> {},
   updated |-> <<>>, vi |-> 0, clips |-> <<>>, concats |-> 0,
   waited |-> <<>>, fatal |-> FALSE, swept |-> FALSE]

\* findMany({ orderBy: { order: 'asc' } }): ids of the rows by ascending order
Rank(rows, i) ==
  Cardinality({j \in DOMAIN rows :
                 \/ rows[j].order < rows[i].order
                 \/ rows[j].order = rows[i].order /\ j < i}) + 1

OrderedIds(rows) ==
  [k \in 1..Len(rows) |-> CHOOSE i \in DOMAIN rows : Rank(rows, i) = k]

\* the rows as findMany returns them, each with its id
FindMany(p) ==
  LET rows == scenes[p]
      ids == OrderedIds(rows)
  IN  [k \in 1..Len(rows) |->
         [id |-> ids[k], order |-> rows[ids[k]].order,
          imagePath |-> rows[ids[k]].imagePath, audioPath |-> rows[ids[k]].audioPath,
          startTimeMs |-> rows[ids[k]].startTimeMs, endTimeMs |-> rows[ids[k]].endTimeMs]]

SeqToSet(s) == {s[k] : k \in DOMAIN s}

RECURSIVE SelectIds(_, _)
\* Array.filter over a findMany result, keeping the ids
SelectIds(rows, keep) ==
  IF rows = <<>> THEN <<>>
  ELSE IF Head(rows).id \in keep
       THEN <<Head(rows).id>> \o SelectIds(Tail(rows), keep)
       ELSE SelectIds(Tail(rows), keep)

\* a generateFullStory invocation that still runs, or whose detached image
\* workers or queued audio batch are still at work
Active(r) ==
  \/ run[r].pc \notin {"idle", "done", "failed"}
  \/ run[r].pending # {}
  \/ run[r].audSt \in {"pre", "queued", "running"}

\* runs are handed out in index order
FreeRun(r) ==
  /\ run[r].proj = 0
  /\ \A q \in Runs : q < r => run[q].proj # 0

\* the latest earlier invocation for project p (0 if none)
LastRunOf(p) ==
  LET prev == {q \in Runs : run[q].proj = p}
  IN  IF prev = {} THEN 0 ELSE CHOOSE q \in prev : \A x \in prev : x <= q

NewRun(p) ==
  [IdleRun EXCEPT
     !.proj = p,
     !.pc = "s1",
     !.quiet = /\ p <= Len(project)
               /\ project[p].status = "COMPLETED"
               /\ project[p].videoPath
               /\ project[p].srtPath
               /\ \A q \in Runs : run[q].proj = p => ~Active(q),
     !.resumes = IF /\ LastRunOf(p) # 0
                    /\ run[LastRunOf(p)].pc = "failed"
                    /\ \A q \in Runs : run[q].proj = p => ~Active(q)
                 THEN LastRunOf(p) ELSE 0]

\* another invocation for the same project is an external change for a run
Disturb(rn, p) ==
  [q \in Runs |-> IF rn[q].proj = p THEN [rn[q] EXCEPT !.quiet = FALSE] ELSE rn[q]]

SetStatus(pr, p, s) == [pr EXCEPT ![p].status = s, ![p].stale = FALSE]

Log(lg, p, entries) == [lg EXCEPT ![p] = @ \union entries]

\* a project nobody has asked the stream of and nothing was logged for
NoStream == [subject |-> FALSE, observers |-> 0, emitted |-> {}, delivered |-> {}]

\* getLogStream: the Subject of the project, created when there is none
GetLogStream(st, p) == [st EXCEPT ![p].subject = TRUE]

\* logsService.emitLog in logMessage: subject.next(event) hands the event to
\* the observers there are and returns
EmitLog(st, p, entries) ==
  [GetLogStream(st, p) EXCEPT
     ![p].emitted = @ \union entries,
     ![p].delivered = IF st[p].observers > 0 THEN @ \union entries ELSE @]

\* the catch block of generateFullStory: an ERROR log entry carrying the
\* error message, then status FAILED
CatchLogs(lg, p, e) == Log(lg, p, {Entry("ERROR", "GENERATION_FAILED", e.stage, e.scene)})

CatchEmits(st, p, e) ==
  EmitLog(st, p, {Entry("ERROR", "GENERATION_FAILED", e.stage, e.scene)})

\* a catch block that only logs
CatchKeepsStatus(pr, p) == pr

\* a catch block that also puts the project back to its state at creation
CatchResetsProject(pr, p) == [pr EXCEPT ![p] = [NewProject EXCEPT !.status = "FAILED"]]

CatchStatus(pr, p) == SetStatus(pr, p, "FAILED")

\* no FfmpegService call is looked at
NoCall == [call |-> "none"]

\* an ApiKeyRollingService that is not looked at
NoKeys == [configured |-> FALSE]

\* an AiService that is not looked at
NoAi == [pc |-> "none"]

\* ------------------------------------------------------------------ Init
Init ==
  /\ project = <<>>
  /\ scenes = [p \in Projects |-> <<>>]
  /\ logs = [p \in Projects |-> {}]
  /\ stream = [p \in Projects |-> NoStream]
  /\ disk = [image |-> [p \in Projects |-> {}],
             imageOf |-> [p \in Projects |-> [o \in Orders |-> 0]],
             audio |-> [p \in Projects |-> [o \in Orders |-> 0]],
             video |-> [p \in Projects |-> FALSE],
             srt |-> [p \in Projects |-> FALSE],
             subtitle |-> [p \in Projects |-> <<>>],
             concat |-> [p \in Projects |-> <<>>]]
  /\ queue = <<>>
  /\ isProcessing = FALSE
  /\ running = {}
  /\ enqOrder = <<>>
  /\ startOrder = <<>>
  /\ run = [r \in Runs |-> IdleRun]
  /\ ffmpeg = NoCall
  /\ text = NoCall
  /\ starts = NoStarts
  /\ ai = NoAi
  /\ keys = NoKeys
  /\ env = [requests |-> MaxRuns, durations |-> Durations, boundaries |-> {<<>>},
            errors |-> {"transient"},
            dtos |-> {TopicDto}, clocks |-> {Clock(5)}]

\* the same service, with MaxBatches requests to come
InitQueue ==
  /\ project = <<>>
  /\ scenes = [p \in Projects |-> <<>>]
  /\ logs = [p \in Projects |-> {}]
  /\ stream = [p \in Projects |-> NoStream]
  /\ disk = [image |-> [p \in Projects |-> {}],
             imageOf |-> [p \in Projects |-> [o \in Orders |-> 0]],
             audio |-> [p \in Projects |-> [o \in Orders |-> 0]],
             video |-> [p \in Projects |-> FALSE],
             srt |-> [p \in Projects |-> FALSE],
             subtitle |-> [p \in Projects |-> <<>>],
             concat |-> [p \in Projects |-> <<>>]]
  /\ queue = <<>>
  /\ isProcessing = FALSE
  /\ running = {}
  /\ enqOrder = <<>>
  /\ startOrder = <<>>
  /\ run = [r \in Runs |-> IdleRun]
  /\ ffmpeg = NoCall
  /\ text = NoCall
  /\ starts = NoStarts
  /\ ai = NoAi
  /\ keys = NoKeys
  /\ env = [requests |-> MaxBatches, durations |-> Durations, boundaries |-> {<<>>},
            errors |-> ErrorKinds,
            dtos |-> {TopicDto}, clocks |-> {Clock(5)}]

\* ------------------------------------------------------------ controller
\* POST /stories/start: startProject, then generateFullStory in the background
StartProject(dto) ==
  LET narrationsMode == dto.storyMode = "narrations" /\ Len(dto.existingNarrations) > 0
      totalImages == IF narrationsMode THEN Len(dto.existingNarrations) ELSE NumScenes
  IN
  /\ env.requests > 0
  /\ dto \in env.dtos
  /\ env' = [env EXCEPT !.requests = @ - 1]
  /\ \E r \in Runs, clock \in env.clocks :
       /\ FreeRun(r)
       /\ project' = Append(project,
                       [NewProject EXCEPT
                          !.totalImages = totalImages,
                          !.storyMode = dto.storyMode,
                          !.projectSlug = generateUniqueSlug(Topic(dto), project, clock)])
       /\ scenes' = IF narrationsMode
                    THEN [scenes EXCEPT ![Len(project) + 1] =
                            [i \in 1..Len(dto.existingNarrations) |->
                               NewScene(i, dto.existingNarrations[i])]]
                    ELSE scenes
       /\ logs' = Log(logs, Len(project) + 1, {Info("PROJECT_STARTED")})
       /\ stream' = EmitLog(stream, Len(project) + 1, {Info("PROJECT_STARTED")})
       /\ run' = [run EXCEPT ![r] = [NewRun(Len(project) + 1) EXCEPT !.quiet = FALSE]]
  /\ UNCHANGED <<disk, queue, isProcessing, running, enqOrder, startOrder,
                 ffmpeg, text, keys, starts, ai>>

\* POST /stories/:id/generate and POST /stories/:id/retry
RetryGeneration(p) ==
  /\ p <= Len(project)
  /\ env.requests > 0
  /\ env' = [env EXCEPT !.requests = @ - 1]
  /\ \E r \in Runs :
       /\ FreeRun(r)
       /\ run' = [Disturb(run, p) EXCEPT ![r] = NewRun(p)]
  /\ UNCHANGED <<project, scenes, logs, stream, disk, queue, isProcessing, running,
                 enqOrder, startOrder, ffmpeg, text, keys, starts, ai>>

\* a client that sends its next request once no invocation is at work
StartWhenIdle ==
  /\ \A q \in Runs : ~Active(q)
  /\ \E dto \in env.dtos : StartProject(dto)

RetryWhenIdle(p) ==
  /\ \A q \in Runs : ~Active(q)
  /\ RetryGeneration(p)

\* --------------------------------------------- generateFullStory, steps 1-4
\* the catch block after a step threw with error e
Throw(rn, r, e, lg, st, called) ==
  LET p == run[r].proj IN
  /\ logs' = CatchLogs(lg, p, e)
  /\ stream' = CatchEmits(st, p, e)
  /\ project' = CatchStatus(project, p)
  /\ run' = [rn EXCEPT ![r].pc = "failed", ![r].err = e,
                        ![r].calls = @ \union called,
                        ![r].globalWordBoundaries = <<>>]

\* Step 1 is skipped unless the project is PENDING or has no title
NeedsMetadata(pr) == pr.status = "PENDING" \/ ~pr.titleGenerated

GenerateMetadata(r) ==
  LET p == run[r].proj IN
  /\ run[r].pc = "s1"
  /\ IF NeedsMetadata(project[p])
     THEN /\ project' = [project EXCEPT ![p].titleGenerated = TRUE,
                                        ![p].status = "STORY_PROMPT_READY",
                                        ![p].stale = FALSE]
          /\ logs' = Log(logs, p, {Info("GENERATING_METADATA")})
          /\ stream' = EmitLog(stream, p, {Info("GENERATING_METADATA")})
          /\ run' = [run EXCEPT ![r].pc = "s2", ![r].calls = @ \union {"text"}]
     ELSE /\ run' = [run EXCEPT ![r].pc = "s2"]
          /\ UNCHANGED <<project, logs, stream>>
  /\ UNCHANGED <<scenes, disk, queue, isProcessing, running, enqOrder, startOrder, env, ffmpeg, text, keys, starts, ai>>

\* Step 2: narrations are generated when the project has no scene yet, or
\* when its first scene by order has no narration
NeedsNarrations(rows) ==
  \/ Len(rows) = 0
  \/ rows[OrderedIds(rows)[1]].narration = <<>>

ReadExistingScenes(r) ==
  LET p == run[r].proj IN
  /\ run[r].pc = "s2"
  /\ IF NeedsNarrations(scenes[p])
     THEN /\ logs' = Log(logs, p, {Info("GENERATING_NARRATIONS")})
          /\ stream' = EmitLog(stream, p, {Info("GENERATING_NARRATIONS")})
          /\ project' = SetStatus(project, p, "GENERATING_SCENES")
          /\ run' = [run EXCEPT ![r].pc = "narr",
                                ![r].chars = project[p].characterDescriptions]
     ELSE /\ run' = [run EXCEPT ![r].pc = "s25",
                                ![r].chars = project[p].characterDescriptions]
          /\ UNCHANGED <<project, logs, stream>>
  /\ UNCHANGED <<scenes, disk, queue, isProcessing, running, enqOrder, startOrder, env, ffmpeg, text, keys, starts, ai>>

\* generateNarrations answers with totalImages narrations, order 1..totalImages
Narrations(totalImages) ==
  [k \in 1..totalImages |-> [order |-> k, narration |-> <<"g">>]]

\* one storyScene.create per narration
CreateScenes(r) ==
  LET p == run[r].proj IN
  /\ run[r].pc = "narr"
  /\ scenes' = [scenes EXCEPT
                  ![p] = @ \o [k \in 1..Len(Narrations(project[p].totalImages)) |->
                                 NewScene(Narrations(project[p].totalImages)[k].order,
                                          Narrations(project[p].totalImages)[k].narration)]]
  /\ run' = [run EXCEPT ![r].pc = "s25", ![r].calls = @ \union {"text"}]
  /\ UNCHANGED <<project, logs, stream, disk, queue, isProcessing, running, enqOrder,
                 startOrder, env, ffmpeg, text, keys, starts, ai>>

\* a storyScene.create of the loop rejects after k rows were created: catch block
CreateScenesThrows(r, k) ==
  LET p == run[r].proj
      narrations == Narrations(project[p].totalImages)
  IN
  /\ run[r].pc = "narr"
  /\ k \in 0..(Len(narrations) - 1)
  /\ scenes' = [scenes EXCEPT
                  ![p] = @ \o [j \in 1..k |->
                                 NewScene(narrations[j].order, narrations[j].narration)]]
  /\ Throw(run, r, [stage |-> "scenes", scene |-> k + 1], logs, stream, {"text"})
  /\ UNCHANGED <<disk, queue, isProcessing, running, enqOrder, startOrder, env,
                 ffmpeg, text, keys, starts, ai>>

\* Step 2.5: character descriptions, decided on the project row read in step 2
GenerateCharacters(r) ==
  LET p == run[r].proj IN
  /\ run[r].pc = "s25"
  /\ IF ~run[r].chars
     THEN /\ project' = [project EXCEPT ![p].characterDescriptions = TRUE,
                                        ![p].stale = FALSE]
          /\ logs' = Log(logs, p, {Info("GENERATING_CHARACTERS")})
          /\ stream' = EmitLog(stream, p, {Info("GENERATING_CHARACTERS")})
          /\ run' = [run EXCEPT ![r].pc = "s3", ![r].calls = @ \union {"text"}]
     ELSE /\ run' = [run EXCEPT ![r].pc = "s3"]
          /\ UNCHANGED <<project, logs, stream>>
  /\ UNCHANGED <<scenes, disk, queue, isProcessing, running, enqOrder, startOrder, env, ffmpeg, text, keys, starts, ai>>

\* Step 3: image prompts for the scenes that have none
ScenesWithoutImagePrompts(rows) == {i \in DOMAIN rows : ~rows[i].imagePrompt}

\* scenesWithoutImagePrompts.find((s) => s.order === result.order): the rows
\* that are found for the results of the batch, one result per scene sent
FoundByOrder(rows, todo) ==
  LET ids == OrderedIds(rows)
      at(i) == CHOOSE k \in DOMAIN ids : ids[k] = i
  IN  {i \in todo : \A j \in todo : rows[j].order = rows[i].order => at(i) <= at(j)}

GenerateImagePrompts(r) ==
  LET p == run[r].proj
      todo == ScenesWithoutImagePrompts(scenes[p])
      found == FoundByOrder(scenes[p], todo)
  IN
  /\ run[r].pc = "s3"
  /\ IF todo # {}
     THEN /\ scenes' = [scenes EXCEPT ![p] =
               [i \in DOMAIN @ |-> IF i \in found THEN [@[i] EXCEPT !.imagePrompt = TRUE]
                                                ELSE @[i]]]
          /\ logs' = Log(logs, p, {Info("GENERATING_IMAGE_PROMPTS")})
          /\ stream' = EmitLog(stream, p, {Info("GENERATING_IMAGE_PROMPTS")})
          /\ run' = [run EXCEPT ![r].pc = "s4", ![r].calls = @ \union {"text"}]
     ELSE /\ run' = [run EXCEPT ![r].pc = "s4"]
          /\ UNCHANGED <<logs, stream, scenes>>
  /\ UNCHANGED <<project, disk, queue, isProcessing, running, enqOrder, startOrder, env, ffmpeg, text, keys, starts, ai>>

\* Step 4: prosody segments and animations for the scenes that have none
\* a filter that keeps every scene
EveryScene(rows) == DOMAIN rows

ScenesWithoutProsody(rows) == {i \in DOMAIN rows : ~rows[i].prosodyData}

GenerateProsody(r) ==
  LET p == run[r].proj
      todo == ScenesWithoutProsody(scenes[p])
  IN
  /\ run[r].pc = "s4"
  /\ IF todo # {}
     THEN /\ scenes' = [scenes EXCEPT ![p] =
               [i \in DOMAIN @ |-> IF i \in todo THEN [@[i] EXCEPT !.prosodyData = TRUE]
                                               ELSE @[i]]]
          /\ logs' = Log(logs, p, {Info("GENERATING_PROSODY_ANIMATIONS")})
          /\ stream' = EmitLog(stream, p, {Info("GENERATING_PROSODY_ANIMATIONS")})
          /\ run' = [run EXCEPT ![r].pc = "s5", ![r].calls = @ \union {"text"}]
     ELSE /\ run' = [run EXCEPT ![r].pc = "s5"]
          /\ UNCHANGED <<logs, stream, scenes>>
  /\ UNCHANGED <<project, disk, queue, isProcessing, running, enqOrder, startOrder, env, ffmpeg, text, keys, starts, ai>>

\* the text-generation call of the step the run is at, if the step makes one
TextStage(r) ==
  LET p == run[r].proj IN
  CASE run[r].pc = "s1" /\ NeedsMetadata(project[p]) -> "GENERATING_METADATA"
    [] run[r].pc = "narr" -> "GENERATING_NARRATIONS"
    [] run[r].pc = "s25" /\ ~run[r].chars -> "GENERATING_CHARACTERS"
    [] run[r].pc = "s3" /\ ScenesWithoutImagePrompts(scenes[p]) # {} -> "GENERATING_IMAGE_PROMPTS"
    [] run[r].pc = "s4" /\ ScenesWithoutProsody(scenes[p]) # {} -> "GENERATING_PROSODY_ANIMATIONS"
    [] OTHER -> ""

\* callAIWithRetry rejects in one of the steps 1-4: the step's INFO entry was
\* logged before the call, then the catch block runs
TextGenerationThrows(r) ==
  LET p == run[r].proj IN
  /\ run[r].proj # 0
  /\ TextStage(r) # ""
  /\ Throw(run, r, [stage |-> "text", scene |-> 0],
           Log(logs, p, {Info(TextStage(r))}),
           EmitLog(stream, p, {Info(TextStage(r))}), {"text"})
  /\ UNCHANGED <<scenes, disk, queue, isProcessing, running, enqOrder, startOrder, env, ffmpeg, text, keys, starts, ai>>

\* ------------------------------------- generateFullStory, steps 5 and 6
\* scenes whose image (audio) is missing in the row or on disk
ScenesNeedingImages(media, p) ==
  {media[k].id : k \in {j \in DOMAIN media :
                          ~media[j].imagePath \/ media[j].order \notin disk.image[p]}}

\* a filter that keeps every scene
AllScenesNeedAudio(media, p) == {media[k].id : k \in DOMAIN media}

ScenesNeedingAudio(media, p) ==
  {media[k].id : k \in {j \in DOMAIN media :
                          ~media[j].audioPath \/ disk.audio[p][media[j].order] = 0}}

\* status GENERATING_IMAGES, the scenesForMedia snapshot, and the two branches
\* of Promise.all up to their first await
BeginMedia(r) ==
  LET p == run[r].proj
      media == FindMany(p)
      needImg == ScenesNeedingImages(media, p)
      needAud == SelectIds(media, ScenesNeedingAudio(media, p))
  IN
  /\ run[r].pc = "s5"
  /\ project' = SetStatus(project, p, "GENERATING_IMAGES")
  /\ logs' = Log(logs, p, {Info("GENERATING_MEDIA")}
                           \union (IF needImg = {} THEN {} ELSE {Info("GENERATING_IMAGES")}))
  /\ stream' = EmitLog(stream, p, {Info("GENERATING_MEDIA")}
                           \union (IF needImg = {} THEN {} ELSE {Info("GENERATING_IMAGES")}))
  /\ run' = [run EXCEPT ![r].pc = "join",
                        ![r].media = media,
                        ![r].pending = needImg,
                        ![r].imgSt = IF needImg = {} THEN "done" ELSE "running",
                        ![r].needAudio = needAud,
                        ![r].audSt = IF needAud = <<>> THEN "done" ELSE "pre"]
  /\ UNCHANGED <<scenes, disk, queue, isProcessing, running, enqOrder, startOrder, env, ffmpeg, text, keys, starts, ai>>

\* the order of scene id in the run's snapshot
OrderOf(r, id) ==
  LET k == CHOOSE j \in DOMAIN run[r].media : run[r].media[j].id = id
  IN  run[r].media[k].order

\* the locals of an invocation are dropped once the invocation has returned and
\* neither its image workers nor its audio batch are at work any more
Forget(rn, r) ==
  IF /\ rn[r].pc \in {"walked", "render", "done", "failed"}
     /\ rn[r].pending = {}
     /\ rn[r].audSt \notin {"pre", "queued", "running"}
  THEN [rn EXCEPT ![r].media = <<>>, ![r].needAudio = <<>>, ![r].results = <<>>,
                  ![r].ai = 0, ![r].attempt = 0, ![r].phase = "",
                  ![r].waited = <<>>, ![r].fatal = FALSE,
                  ![r].imgSt = "none", ![r].audSt = "none"]
  ELSE rn

FirstError(r, e) == IF run[r].err = NoError THEN e ELSE run[r].err

\* one image worker of pMap: generateImage, then the imagePath of its scene.
\* The audio branch issued its status update before any worker started.
ImageDone(r, id) ==
  LET p == run[r].proj
      o == OrderOf(r, id)
      left == run[r].pending \ {id}
  IN
  /\ id \in run[r].pending
  /\ run[r].audSt # "pre"
  /\ disk' = [disk EXCEPT !.image[p] = @ \union {o}, !.imageOf[p][o] = id]
  /\ scenes' = [scenes EXCEPT ![p][id].imagePath = TRUE]
  /\ run' = Forget([run EXCEPT ![r].pending = left,
                               ![r].imgSt = IF @ = "running" /\ left = {} THEN "done" ELSE @,
                               ![r].calls = @ \union {"image"}], r)
  /\ UNCHANGED <<project, logs, stream, queue, isProcessing, running, enqOrder, startOrder, env, ffmpeg, text, keys, starts, ai>>

\* a worker throws: pMap rejects, the workers already started go on
ImageFail(r, id) ==
  /\ id \in run[r].pending
  /\ run[r].audSt # "pre"
  /\ run' = Forget([run EXCEPT ![r].pending = @ \ {id},
                               ![r].imgSt = "failed",
                               ![r].err = FirstError(r, [stage |-> "image", scene |-> OrderOf(r, id)]),
                               ![r].calls = @ \union {"image"}], r)
  /\ UNCHANGED <<project, scenes, logs, stream, disk, queue, isProcessing, running,
                 enqOrder, startOrder, env, ffmpeg, text, keys, starts, ai>>

\* ------------------------------------------------------- TtsQueueService
\* a processQueue without the isProcessing test
ProcessQueueUnguarded(processing) == TRUE

\* processQueue returns at once when a loop is already at work
ProcessQueueGuard(processing) == ~processing

\* this.queue.pop() in place of shift()
Pop(q) == [item |-> q[Len(q)], rest |-> SubSeq(q, 1, Len(q) - 1)]

\* this.queue.shift()
Shift(q) == [item |-> Head(q), rest |-> Tail(q)]

\* item.task() is called: the batch starts with its first scene, attempt 1
StartTask(rn, t) ==
  [rn EXCEPT ![t].audSt = "running", ![t].ai = 1, ![t].attempt = 1, ![t].phase = "call"]

\* a loop that also retries after the last attempt
RetryOnceMore(attempt) == attempt <= maxRetries

\* if (attempt < maxRetries): wait, then the next round of the for loop
MayRetry(attempt) == attempt < maxRetries

\* the audio branch: status GENERATING_TTS, then enqueue (push, processQueue)
AudioEnqueue(r) ==
  LET p == run[r].proj
      q1 == Append(queue, r)
      sh == Shift(q1)
      rn == [run EXCEPT ![r].audSt = "queued", ![r].calls = @ \union {"enqueue"}]
  IN
  /\ run[r].audSt = "pre"
  /\ project' = SetStatus(project, p, "GENERATING_TTS")
  /\ logs' = Log(logs, p, {Info("GENERATING_TTS")})
  /\ stream' = EmitLog(stream, p, {Info("GENERATING_TTS")})
  /\ enqOrder' = Append(enqOrder, r)
  /\ IF ProcessQueueGuard(isProcessing)
     THEN /\ queue' = sh.rest
          /\ isProcessing' = TRUE
          /\ running' = running \union {sh.item}
          /\ startOrder' = Append(startOrder, sh.item)
          /\ run' = StartTask(rn, sh.item)
     ELSE /\ queue' = q1
          /\ run' = rn
          /\ UNCHANGED <<isProcessing, running, startOrder>>
  /\ UNCHANGED <<scenes, disk, env, ffmpeg, text, keys, starts, ai>>

\* a loop that ends with the task that has settled
EndWithTask(rn, t) ==
  /\ running' = running \ {t}
  /\ isProcessing' = FALSE
  /\ run' = rn
  /\ UNCHANGED <<queue, startOrder>>

\* the task of batch t has settled (resolve or reject): the while loop of
\* processQueue takes the next item, or ends and clears isProcessing
SettleTask(rn, t) ==
  IF queue # <<>>
  THEN LET sh == Shift(queue) IN
       /\ queue' = sh.rest
       /\ running' = (running \ {t}) \union {sh.item}
       /\ startOrder' = Append(startOrder, sh.item)
       /\ run' = StartTask(rn, sh.item)
       /\ UNCHANGED isProcessing
  ELSE /\ running' = running \ {t}
       /\ isProcessing' = FALSE
       /\ run' = rn
       /\ UNCHANGED <<queue, startOrder>>

\* a loop that walks the list from its end
LastFirst(r) == OrderOf(r, run[r].needAudio[Len(run[r].needAudio) + 1 - run[r].ai])

\* the scene the batch is at
CurrentOrder(r) == OrderOf(r, run[r].needAudio[run[r].ai])

\* an attempt succeeds: the audio file is written and the result is kept in
\* the task's local results array
SynthOk(r, d, wb) ==
  LET p == run[r].proj
      o == CurrentOrder(r)
      rn == [run EXCEPT ![r].results = Append(@, [sceneId |-> run[r].needAudio[run[r].ai],
                                                  durationMs |-> d,
                                                  wordBoundaries |-> wb]),
                        ![r].heard = @ \union {[sceneId |-> run[r].needAudio[run[r].ai],
                                                wordBoundaries |-> wb]},
                        ![r].synth = @ \union {o},
                        ![r].synthOk = @ \union {o},
                        ![r].calls = @ \union {"tts"}]
  IN
  /\ run[r].audSt = "running"
  /\ run[r].phase \in {"call", "plain"}
  /\ d \in env.durations
  /\ wb \in env.boundaries
  /\ disk' = [disk EXCEPT !.audio[p][o] = d]
  /\ IF run[r].ai < Len(run[r].needAudio)
     THEN /\ run' = [rn EXCEPT ![r].ai = @ + 1, ![r].attempt = 1, ![r].phase = "call",
                               ![r].waited = <<>>, ![r].fatal = FALSE]
          /\ UNCHANGED <<queue, isProcessing, running, startOrder>>
     ELSE SettleTask(Forget([rn EXCEPT ![r].audSt = "done", ![r].phase = "",
                                       ![r].waited = <<>>, ![r].fatal = FALSE], r), r)
  /\ UNCHANGED <<project, scenes, logs, stream, enqOrder, env, ffmpeg, text, keys, starts, ai>>

\* generateSpeechWithProsody rejects: the inner catch falls back to
\* generateSpeech on the plain narration, within the same attempt
ProsodyFails(r, kind) ==
  /\ run[r].audSt = "running"
  /\ run[r].phase = "call"
  /\ kind \in env.errors
  /\ run' = [run EXCEPT ![r].phase = "plain",
                        ![r].fatal = @ \/ kind = "fatal",
                        ![r].synth = @ \union {CurrentOrder(r)},
                        ![r].calls = @ \union {"tts"}]
  /\ UNCHANGED <<project, scenes, logs, stream, disk, queue, isProcessing, running,
                 enqOrder, startOrder, env, ffmpeg, text, keys, starts, ai>>

\* an attempt fails: wait 2000 * attempt and retry, or throw after maxRetries
SynthFail(r, kind) ==
  LET o == CurrentOrder(r)
      rn == [run EXCEPT ![r].synth = @ \union {o}, ![r].calls = @ \union {"tts"},
                        ![r].fatal = @ \/ kind = "fatal"]
  IN
  /\ run[r].audSt = "running"
  /\ run[r].phase = "plain"
  /\ kind \in env.errors
  /\ IF MayRetry(run[r].attempt)
     THEN /\ run' = [rn EXCEPT ![r].phase = "wait",
                               ![r].waited = Append(@, RetryDelayMs * run[r].attempt)]
          /\ UNCHANGED <<queue, isProcessing, running, startOrder>>
     ELSE SettleTask(Forget([rn EXCEPT ![r].audSt = "failed", ![r].phase = "",
                                       ![r].exhausted = o,
                                       ![r].err = FirstError(r, [stage |-> "audio", scene |-> o])], r), r)
  /\ UNCHANGED <<project, scenes, logs, stream, disk, enqOrder, env, ffmpeg, text, keys, starts, ai>>

\* the timer fires: the next round of the for loop
RetryWaitDone(r) ==
  /\ run[r].audSt = "running"
  /\ run[r].phase = "wait"
  /\ run' = [run EXCEPT ![r].phase = "call", ![r].attempt = @ + 1]
  /\ UNCHANGED <<project, scenes, logs, stream, disk, queue, isProcessing, running,
                 enqOrder, startOrder, env, ffmpeg, text, keys, starts, ai>>

\* ------------------------------------------------ the join and the walk
\* Promise.all rejects with the first branch that throws: catch block
JoinFail(r) ==
  LET p == run[r].proj IN
  /\ run[r].pc = "join"
  /\ run[r].imgSt = "failed" \/ run[r].audSt = "failed"
  /\ logs' = CatchLogs(logs, p, run[r].err)
  /\ stream' = CatchEmits(stream, p, run[r].err)
  /\ project' = CatchStatus(project, p)
  /\ run' = Forget([run EXCEPT ![r].pc = "failed"], r)
  /\ UNCHANGED <<scenes, disk, queue, isProcessing, running, enqOrder, startOrder, env, ffmpeg, text, keys, starts, ai>>

HasResult(results, id) == \E k \in DOMAIN results : results[k].sceneId = id

\* audioResults.find((r) => r.sceneId === scene.id)
FindResult(results, id) ==
  results[CHOOSE k \in DOMAIN results :
            /\ results[k].sceneId = id
            /\ \A j \in DOMAIN results : results[j].sceneId = id => k <= j]

\* a scene of the snapshot that already carries timing is skipped
HasTiming(scene) == scene.startTimeMs # NULL /\ scene.endTimeMs # NULL

RECURSIVE WalkFromZero(_, _, _, _, _)
\* a loop that skips a timed scene without moving the cursor
WalkFromZero(rows, media, results, k, currentTime) ==
  IF k > Len(media) THEN rows
  ELSE LET scene == media[k] IN
       IF HasTiming(scene)
       THEN WalkFromZero(rows, media, results, k + 1, currentTime)
       ELSE IF HasResult(results, scene.id)
            THEN LET d == FindResult(results, scene.id).durationMs IN
                 WalkFromZero([rows EXCEPT ![scene.id].audioPath = TRUE,
                                           ![scene.id].startTimeMs = currentTime,
                                           ![scene.id].endTimeMs = currentTime + d],
                              media, results, k + 1, currentTime + d)
            ELSE WalkFromZero(rows, media, results, k + 1, currentTime)

RECURSIVE TimingWalk(_, _, _, _, _)
\* the loop over orderedScenes, from position k with the cursor currentTime
TimingWalk(rows, media, results, k, currentTime) ==
  IF k > Len(media) THEN rows
  ELSE LET scene == media[k] IN
       IF HasTiming(scene)
       THEN TimingWalk(rows, media, results, k + 1, scene.endTimeMs)
       ELSE IF HasResult(results, scene.id)
            THEN LET d == FindResult(results, scene.id).durationMs IN
                 TimingWalk([rows EXCEPT ![scene.id].audioPath = TRUE,
                                         ![scene.id].startTimeMs = currentTime,
                                         ![scene.id].endTimeMs = currentTime + d],
                            media, results, k + 1, currentTime + d)
            ELSE TimingWalk(rows, media, results, k + 1, currentTime)

\* hasCompleteWordBoundaries after the loop: it is cleared by a scene that
\* carries timing and by a result without word boundaries
HasCompleteWordBoundaries(media, results) ==
  \A k \in DOMAIN media :
    /\ ~HasTiming(media[k])
    /\ HasResult(results, media[k].id) =>
         Len(FindResult(results, media[k].id).wordBoundaries) > 0

\* the boundaries of a result, moved by the start of its scene
ShiftBoundaries(id, wb, sceneStartMs) ==
  [j \in DOMAIN wb |->
     [scene |-> id, offset |-> wb[j].offset + sceneStartMs * HNS_PER_MS,
      duration |-> wb[j].duration]]

RECURSIVE GlobalWordBoundaries(_, _, _, _)
\* globalWordBoundaries after the loop, from position k with the cursor currentTime
GlobalWordBoundaries(media, results, k, currentTime) ==
  IF k > Len(media) THEN <<>>
  ELSE LET scene == media[k] IN
       IF HasTiming(scene)
       THEN GlobalWordBoundaries(media, results, k + 1, scene.endTimeMs)
       ELSE IF HasResult(results, scene.id)
            THEN LET res == FindResult(results, scene.id) IN
                 ShiftBoundaries(scene.id, res.wordBoundaries, currentTime)
                   \o GlobalWordBoundaries(media, results, k + 1, currentTime + res.durationMs)
            ELSE GlobalWordBoundaries(media, results, k + 1, currentTime)

\* a join that goes on once both branches have settled, resolved or rejected
AllSettled(inv) ==
  /\ inv.imgSt \in {"done", "failed"}
  /\ inv.audSt \in {"done", "failed"}

\* Promise.all resolves when both branches have resolved
BothResolved(inv) ==
  /\ inv.imgSt = "done"
  /\ inv.audSt = "done"

\* both branches resolved: write audioPath and timing back
JoinOk(r) ==
  LET p == run[r].proj IN
  /\ run[r].pc = "join"
  /\ BothResolved(run[r])
  /\ scenes' = [scenes EXCEPT ![p] = TimingWalk(@, run[r].media, run[r].results, 1, 0)]
  /\ run' = Forget([run EXCEPT
         ![r].pc = "walked",
         ![r].hasCompleteWordBoundaries = HasCompleteWordBoundaries(run[r].media, run[r].results),
         ![r].globalWordBoundaries = GlobalWordBoundaries(run[r].media, run[r].results, 1, 0)], r)
  /\ UNCHANGED <<project, logs, stream, disk, queue, isProcessing, running, enqOrder, startOrder, env, ffmpeg, text, keys, starts, ai>>

\* ------------------------------------------------------- steps 7 and 8
\* createSceneVideo needs the image and the audio file of the scene
Renderable(p, row) ==
  /\ row.imagePath
  /\ row.order \in disk.image[p]
  /\ row.audioPath
  /\ disk.audio[p][row.order] # 0

\* sceneVideos: one clip per row of updatedScenes, in that order
SceneVideos(updated) == [k \in DOMAIN updated |-> updated[k].order]

\* status RENDERING_VIDEO, then the updatedScenes snapshot the render loop and
\* the scene-level SRT work on
BeginRender(r) ==
  LET p == run[r].proj IN
  /\ run[r].pc = "walked"
  /\ logs' = Log(logs, p, {Info("RENDERING_VIDEO")})
  /\ stream' = EmitLog(stream, p, {Info("RENDERING_VIDEO")})
  /\ project' = SetStatus(project, p, "RENDERING_VIDEO")
  /\ run' = [run EXCEPT ![r].pc = "render", ![r].updated = FindMany(p), ![r].vi = 1]
  /\ UNCHANGED <<scenes, disk, queue, isProcessing, running, enqOrder, startOrder, env, ffmpeg, text, keys, starts, ai>>

\* one round of the render loop: createSceneVideo resolves for the scene the
\* loop is at, its clip is pushed to sceneVideos
RenderScene(r) ==
  LET p == run[r].proj IN
  /\ run[r].pc = "render"
  /\ run[r].vi <= Len(run[r].updated)
  /\ Renderable(p, run[r].updated[run[r].vi])
  /\ run' = [run EXCEPT ![r].vi = @ + 1,
                        ![r].clips = Append(@, run[r].updated[run[r].vi].order)]
  /\ UNCHANGED <<project, scenes, logs, stream, disk, queue, isProcessing, running,
                 enqOrder, startOrder, env, ffmpeg, text, keys, starts, ai>>

\* SrtGenerator.msToSrtTime: hours, minutes, seconds, milliseconds (a null
\* column counts as 0 in the arithmetic)
MsToSrtTime(t) ==
  LET ms == IF t = NULL THEN 0 ELSE t IN
  [hours |-> ms \div 3600000,
   minutes |-> (ms % 3600000) \div 60000,
   seconds |-> (ms % 60000) \div 1000,
   milliseconds |-> ms % 1000]

\* the words left in the order they were pushed
KeepOrder(words) == words

\* Array.sort((a, b) => a.offset - b.offset), which is stable
SortByOffset(words) ==
  LET before(i, j) == \/ words[i].offset < words[j].offset
                      \/ words[i].offset = words[j].offset /\ i < j
      place(i) == Cardinality({j \in DOMAIN words : before(j, i)}) + 1
  IN  [k \in DOMAIN words |-> words[CHOOSE i \in DOMAIN words : place(i) = k]]

\* createSRT(globalWordBoundaries): one cue per word, in the order given
CreateSRT(words) ==
  [k \in DOMAIN words |->
     [kind |-> "word", index |-> k, scene |-> words[k].scene,
      offset |-> words[k].offset, duration |-> words[k].duration]]

\* SrtGenerator.generateSrt over updatedScenes: one cue per scene row
GenerateSrt(updated) ==
  [k \in DOMAIN updated |->
     [kind |-> "scene", index |-> k, scene |-> updated[k].id,
      startTime |-> MsToSrtTime(updated[k].startTimeMs),
      endTime |-> MsToSrtTime(updated[k].endTimeMs)]]

\* word timing is used as soon as one word boundary was collected
AnyWordTiming(complete, words) == Len(words) > 0

\* word timing is used when no scene cleared the flag and there are words
UseWordTiming(complete, words) == complete /\ Len(words) > 0

\* Step 8: the content of subtitle.srt
SrtContent(complete, words, updated) ==
  IF UseWordTiming(complete, words)
  THEN CreateSRT(SortByOffset(words))
  ELSE GenerateSrt(updated)

\* after the loop: the clips concatenated, the SRT written, the project COMPLETED
FinishRender(r) ==
  LET p == run[r].proj
      updated == run[r].updated
  IN
  /\ run[r].pc = "render"
  /\ run[r].vi > Len(updated)
  /\ disk' = [disk EXCEPT !.video[p] = TRUE, !.srt[p] = TRUE,
                          !.subtitle[p] = SrtContent(run[r].hasCompleteWordBoundaries,
                                                     run[r].globalWordBoundaries, updated),
                          !.concat[p] = SceneVideos(updated)]
  /\ project' = [project EXCEPT ![p].videoPath = TRUE, ![p].srtPath = TRUE,
                                ![p].status = "COMPLETED", ![p].stale = FALSE]
  /\ logs' = Log(logs, p, {Info("COMPLETED")})
  /\ stream' = EmitLog(stream, p, {Info("COMPLETED")})
  /\ run' = [run EXCEPT ![r].pc = "done", ![r].globalWordBoundaries = <<>>,
                        ![r].updated = <<>>, ![r].vi = 0, ![r].concats = @ + 1]
  /\ UNCHANGED <<scenes, queue, isProcessing, running, enqOrder, startOrder, env, ffmpeg, text, keys, starts, ai>>

\* a render loop that goes on with the next scene after a rejection
RenderSkipsScene(rn, r) == [rn EXCEPT ![r].vi = @ + 1]

\* the rejection of the awaited createSceneVideo leaves the loop and the try
\* block of generateFullStory
RenderRejected(rn, r) ==
  [rn EXCEPT ![r].pc = "failed", ![r].globalWordBoundaries = <<>>,
             ![r].updated = <<>>, ![r].vi = 0]

\* createSceneVideo rejects for the scene the loop is at (a missing input, an
\* encode error): catch block
RenderThrows(r) ==
  LET p == run[r].proj
      o == run[r].updated[run[r].vi].order
      rn == RenderRejected([run EXCEPT ![r].err = [stage |-> "render", scene |-> o],
                                       ![r].clips = Append(@, o)], r)
  IN
  /\ run[r].pc = "render"
  /\ run[r].vi <= Len(run[r].updated)
  /\ run' = rn
  /\ IF rn[r].pc = "failed"
     THEN /\ logs' = CatchLogs(logs, p, rn[r].err)
          /\ stream' = CatchEmits(stream, p, rn[r].err)
          /\ project' = CatchStatus(project, p)
     ELSE UNCHANGED <<logs, stream, project>>
  /\ UNCHANGED <<scenes, disk, queue, isProcessing, running, enqOrder, startOrder, env, ffmpeg, text, keys, starts, ai>>

\* concatenateVideos rejects: catch block
ConcatThrows(r) ==
  /\ run[r].pc = "render"
  /\ run[r].vi > Len(run[r].updated)
  /\ Throw([run EXCEPT ![r].updated = <<>>, ![r].vi = 0, ![r].concats = @ + 1],
           r, [stage |-> "concat", scene |-> 0], logs, stream, {})
  /\ UNCHANGED <<scenes, disk, queue, isProcessing, running, enqOrder, startOrder, env, ffmpeg, text, keys, starts, ai>>

\* -------------------------------------------------------- CleanupService
\* the pass of recoverStuckProcesses over the projects findMany returned:
\* each is set to FAILED and gets a PROCESS_TIMEOUT entry
Recover(stuck) ==
  /\ stuck # {}
  /\ project' = [p \in 1..Len(project) |->
                   IF p \in stuck THEN SetStatus(project, p, "FAILED")[p]
                   ELSE project[p]]
  /\ logs' = [p \in Projects |->
                IF p \in stuck
                THEN logs[p] \union {Entry("ERROR", "PROCESS_TIMEOUT", "", 0)}
                ELSE logs[p]]
  /\ run' = [r \in Runs |->
               IF run[r].proj \in stuck /\ Active(r)
               THEN [run[r] EXCEPT !.swept = TRUE]
               ELSE run[r]]
  /\ UNCHANGED <<stream, scenes, disk, queue, isProcessing, running, enqOrder, startOrder, env, ffmpeg, text, keys, starts, ai>>

\* every 5 minutes: projects stuck in a working status for 30 minutes; the
\* clock is not looked at, any project in a working status may be that old
RecoverStuckProcesses ==
  \E stuck \in SUBSET {p \in 1..Len(project) : project[p].status \in SweptStatuses} :
    Recover(stuck)

\* findMany({ where: { status: { in: [...] }, updatedAt: { lt: cutoffDate } } })
StuckProjects ==
  {p \in 1..Len(project) : project[p].status \in SweptStatuses /\ project[p].stale}

\* the same pass with the clock looked at: stale is updatedAt < cutoffDate
RecoverStale == Recover(StuckProjects)

\* stuckTimeoutMinutes go by without an update of the projects in old
TimePasses ==
  \E old \in SUBSET {p \in 1..Len(project) : ~project[p].stale} :
    /\ old # {}
    /\ project' = [p \in 1..Len(project) |->
                     IF p \in old THEN [project[p] EXCEPT !.stale = TRUE]
                     ELSE project[p]]
    /\ UNCHANGED <<logs, run, stream, scenes, disk, queue, isProcessing, running, enqOrder, startOrder, env, ffmpeg, text, keys, starts, ai>>

\* every hour when ASSET_TTL_HOURS > 0: the files of old COMPLETED projects
CleanupOldAssets ==
  \E old \in SUBSET {p \in 1..Len(project) : project[p].status = "COMPLETED"} :
    /\ old # {}
    /\ disk' = [disk EXCEPT
         !.video = [p \in Projects |-> IF p \in old /\ project[p].videoPath THEN FALSE ELSE @[p]],
         !.srt = [p \in Projects |-> IF p \in old /\ project[p].srtPath THEN FALSE ELSE @[p]],
         !.subtitle = [p \in Projects |-> IF p \in old /\ project[p].srtPath THEN <<>> ELSE @[p]],
         !.image = [p \in Projects |->
            IF p \in old
            THEN @[p] \ {scenes[p][i].order : i \in {j \in DOMAIN scenes[p] : scenes[p][j].imagePath}}
            ELSE @[p]],
         !.imageOf = [p \in Projects |->
            IF p \in old
            THEN [o \in Orders |->
                    IF \E i \in DOMAIN scenes[p] : scenes[p][i].order = o /\ scenes[p][i].imagePath
                    THEN 0 ELSE @[p][o]]
            ELSE @[p]],
         !.audio = [p \in Projects |->
            IF p \in old
            THEN [o \in Orders |->
                    IF \E i \in DOMAIN scenes[p] : scenes[p][i].order = o /\ scenes[p][i].audioPath
                    THEN 0 ELSE @[p][o]]
            ELSE @[p]]]
    /\ project' = [p \in 1..Len(project) |->
                     IF p \in old
                     THEN [project[p] EXCEPT !.videoPath = FALSE, !.srtPath = FALSE,
                                             !.stale = FALSE]
                     ELSE project[p]]
    /\ scenes' = [p \in Projects |->
                    IF p \in old
                    THEN [i \in DOMAIN scenes[p] |->
                            [scenes[p][i] EXCEPT !.imagePath = FALSE, !.audioPath = FALSE]]
                    ELSE scenes[p]]
    /\ run' = [q \in Runs |-> IF run[q].proj \in old THEN [run[q] EXCEPT !.quiet = FALSE]
                              ELSE run[q]]
    /\ UNCHANGED <<logs, stream, queue, isProcessing, running, enqOrder, startOrder, env, ffmpeg, text, keys, starts, ai>>

\* -------------------------------------------------------- LogsController
\* GET /stories/:projectId/logs/stream: the Subject of the project gets one
\* more observer
StreamLogs(p) ==
  /\ p <= Len(project)
  /\ stream[p].observers < MaxObservers
  /\ stream' = [GetLogStream(stream, p) EXCEPT ![p].observers = @ + 1]
  /\ UNCHANGED <<project, scenes, logs, disk, queue, isProcessing, running,
                 enqOrder, startOrder, run, env, ffmpeg, text, keys, starts, ai>>

\* the client of a stream goes away
Disconnect(p) ==
  /\ stream[p].observers > 0
  /\ stream' = [stream EXCEPT ![p].observers = @ - 1]
  /\ UNCHANGED <<project, scenes, logs, disk, queue, isProcessing, running,
                 enqOrder, startOrder, run, env, ffmpeg, text, keys, starts, ai>>

\* --------------------------------------------------------- FfmpegService
\* Times are in milliseconds.  The file holds two revisions of the animation
\* code: revision 1 (lines 1-329) and revision 2 (lines 330-673).
Revisions == {1, 2}

\* what ffprobe reports as format.duration (0: no duration in the metadata)
ProbedDurations == {0} \union {100 * k : k \in 5..MaxAudioTenths}

\* the animation plans looked at ("": the field is absent)
AnimationsIn == {"", "none", "fade"}
AnimationsShow == {"", "static", "pan-left", "zoom-slow", "zoom-in", "zoom-out"}
AnimationsOut == {"", "none", "fade"}
ZoomShows == {"zoom-slow", "zoom-in", "zoom-out"}

\* zoompan's output frame number of its first frame
FirstFrameNumbers == {0, 1}

Max(a, b) == IF a >= b THEN a ELSE b
Min(a, b) == IF a <= b THEN a ELSE b

\* audioMetadata.format.duration || 3
AudioDuration(probed) == IF probed = 0 THEN 3000 ELSE probed

\* const transitionDuration
TransitionDuration(rev) == IF rev = 1 THEN 500 ELSE 400

\* the zoom range of a show animation in thousandths: the numerator of the
\* per-frame increment (0.04 / frames is ZoomRange / (1000 * frames))
ZoomRange(rev, animation) ==
  CASE animation = "zoom-slow" -> IF rev = 1 THEN 40 ELSE 20
    [] animation = "zoom-in" -> IF rev = 1 THEN 80 ELSE 40
    [] animation = "zoom-out" -> IF rev = 1 THEN 100 ELSE 50
    [] OTHER -> 0

\* getKenBurnsFilter: the zoompan filter of a show animation over duration
GetKenBurnsFilter(rev, animation, duration) ==
  [animation |-> animation,
   d |-> (duration * VIDEO_FPS) \div 1000,
   range |-> ZoomRange(rev, animation)]

NoZoompan == [animation |-> "", d |-> 0, range |-> 0]
NoFade == [on |-> FALSE, st |-> 0, d |-> 0]

HasIn(a) == a.animationIn # "" /\ a.animationIn # "none"
HasOut(a) == a.animationOut # "" /\ a.animationOut # "none"

\* const exitStart = Math.max(0, duration - transitionDuration)
ExitStart(rev, duration) == Max(0, duration - TransitionDuration(rev))

\* buildAnimationFilters: the parts of the filter chain that depend on the
\* animation plan and on the duration of the audio
BuildAnimationFilters(rev, a, duration) ==
  LET t == TransitionDuration(rev)
      effectiveDuration == duration - (IF HasIn(a) THEN t ELSE 0)
                                    - (IF HasOut(a) THEN t ELSE 0)
  IN  IF a.animationIn = "" /\ a.animationShow = "" /\ a.animationOut = ""
      THEN [effectiveDuration |-> effectiveDuration, zoompan |-> NoZoompan,
            fadeIn |-> NoFade, fadeOut |-> NoFade]
      ELSE [effectiveDuration |-> effectiveDuration,
            zoompan |-> IF a.animationShow \notin {"", "none", "static"}
                        THEN GetKenBurnsFilter(rev, a.animationShow, effectiveDuration)
                        ELSE NoZoompan,
            fadeIn |-> IF HasIn(a) THEN [on |-> TRUE, st |-> 0, d |-> t] ELSE NoFade,
            fadeOut |-> IF HasOut(a)
                        THEN [on |-> TRUE, st |-> ExitStart(rev, duration), d |-> t]
                        ELSE NoFade]

\* zoompan's zoom variable before the first frame is 1; zoom values are kept
\* as numerators over 1000 * d, so that range / d is exact
InitialZoom(zp) == 1000 * zp.d

\* the z expression of revision 1 for zoom-out, max(zoom - dec, 1.0), and of
\* revision 2, max(1.05 - dec * on, 1.0); min(zoom + inc, target) for the others
ZoomExpression(rev, zp, zoom, on) ==
  CASE zp.animation = "zoom-out" /\ rev = 1 -> Max(zoom - zp.range, 1000 * zp.d)
    [] zp.animation = "zoom-out" /\ rev = 2 ->
         Max((1000 + zp.range) * zp.d - zp.range * on, 1000 * zp.d)
    [] zp.animation \in {"zoom-slow", "zoom-in"} ->
         Min(zoom + zp.range, (1000 + zp.range) * zp.d)
    [] zp.animation = "pan-left" -> IF rev = 1 THEN 1050 * zp.d ELSE 1030 * zp.d
    [] OTHER -> 1000 * zp.d

\* createSceneVideo: ffprobe, buildAnimationFilters, then ffmpeg is started
CreateSceneVideo(rev, probed, a, first) ==
  LET duration == AudioDuration(probed)
      filters == BuildAnimationFilters(rev, a, duration)
  IN
  /\ ffmpeg.call = "none"
  /\ ffmpeg' = [call |-> "createSceneVideo", rev |-> rev, animations |-> a,
                duration |-> duration, filters |-> filters,
                frame |-> 0, on |-> first - 1, zoom |-> InitialZoom(filters.zoompan),
                lastZoom |-> InitialZoom(filters.zoompan)]
  /\ UNCHANGED <<project, scenes, logs, stream, disk, queue, isProcessing, running,
                 enqOrder, startOrder, run, env, text, keys, starts, ai>>

\* zoompan produces the next of its d frames: z is evaluated with the zoom of
\* the frame before and the output frame number
ZoompanFrame ==
  /\ ffmpeg.call = "createSceneVideo"
  /\ ffmpeg.filters.zoompan.animation # ""
  /\ ffmpeg.frame < ffmpeg.filters.zoompan.d
  /\ ffmpeg' = [ffmpeg EXCEPT
                  !.frame = @ + 1,
                  !.on = @ + 1,
                  !.lastZoom = ffmpeg.zoom,
                  !.zoom = ZoomExpression(ffmpeg.rev, ffmpeg.filters.zoompan,
                                          ffmpeg.zoom, ffmpeg.on + 1)]
  /\ UNCHANGED <<project, scenes, logs, stream, disk, queue, isProcessing, running,
                 enqOrder, startOrder, run, env, text, keys, starts, ai>>

\* the lists of clips handed to concatenateVideos and the clips that exist
ClipLists == {[k \in 1..n |-> k] : n \in 1..MaxClips}

\* the first index of videoPaths whose clip does not exist (0: none)
FirstMissing(videoPaths, present) ==
  IF \A k \in DOMAIN videoPaths : videoPaths[k] \in present THEN 0
  ELSE CHOOSE k \in DOMAIN videoPaths :
         /\ videoPaths[k] \notin present
         /\ \A j \in 1..(k - 1) : videoPaths[j] \in present

\* what the ffmpeg process does with the file list: it ends, or it emits
\* 'error'.  With a clip missing it may stop with an error or, having read
\* the clips before the missing one, end with what it has read.
ConcatOutcomes(videoPaths, present) ==
  LET m == FirstMissing(videoPaths, present) IN
  IF m = 0 THEN {"end", "error"}
  ELSE IF m = 1 THEN {"error"}
  ELSE {"end", "error"}

\* concatenateVideos: filelist.txt, ffmpeg -f concat -c copy; 'end' resolves
\* with outputPath, 'error' rejects with the error of ffmpeg
ConcatenateVideos(videoPaths, present, outcome) ==
  LET m == FirstMissing(videoPaths, present) IN
  /\ ffmpeg.call = "none"
  /\ outcome \in ConcatOutcomes(videoPaths, present)
  /\ ffmpeg' = [call |-> "concatenateVideos", videoPaths |-> videoPaths,
                present |-> present,
                settled |-> IF outcome = "end" THEN "resolved" ELSE "rejected",
                output |-> IF outcome # "end" THEN <<>>
                           ELSE IF m = 0 THEN videoPaths
                           ELSE SubSeq(videoPaths, 1, m - 1),
                error |-> IF outcome = "end" THEN [source |-> "", index |-> 0]
                          ELSE [source |-> "ffmpeg", index |-> 0]]
  /\ UNCHANGED <<project, scenes, logs, stream, disk, queue, isProcessing, running,
                 enqOrder, startOrder, run, env, text, keys, starts, ai>>

\* the call has settled; the next call can be looked at
Settled ==
  /\ ffmpeg.call # "none"
  /\ ffmpeg' = NoCall
  /\ UNCHANGED <<project, scenes, logs, stream, disk, queue, isProcessing, running,
                 enqOrder, startOrder, run, env, text, keys, starts, ai>>

\* --------------------------------------------------- punctuation-splitter
\* a text is the sequence of its characters; "U+2026" is the one-character
\* ellipsis
Punctuation == {".", "!", "?", ";", ":", "U+2026"}

\* the class [.!?;:] of the pattern
Marks == {".", "!", "?", ";", ":"}

Alphabet == {"a", " "} \union Punctuation

Texts == UNION {[1..n -> Alphabet] : n \in 0..MaxTextLen}

\* the first position from `from` on that holds a character of S (0: none)
FirstIndex(s, from, S) ==
  LET hits == {k \in from..Len(s) : s[k] \in S}
  IN  IF hits = {} THEN 0 ELSE CHOOSE k \in hits : \A j \in hits : k <= j

RECURSIVE RunEnd(_, _, _)
\* the last position of the longest run of characters of S that starts at k
\* (k - 1 if the run is empty)
RunEnd(s, k, S) ==
  IF k <= Len(s) /\ s[k] \in S THEN RunEnd(s, k + 1, S) ELSE k - 1

RECURSIVE Combinations(_, _)
\* (?:\s*[.!?;:]+)* after a run of marks that ends at e: whitespace is taken
\* only when more marks follow it
Combinations(s, e) ==
  LET w == RunEnd(s, e + 1, Whitespace)
      m == RunEnd(s, w + 1, Marks)
  IN  IF m > w THEN Combinations(s, m) ELSE e

\* the alternatives of the pattern at the first punctuation character q:
\* \.{2,}, then the ellipsis character, then [.!?;:]+ with its combinations
PunctuationEnd(s, q) ==
  IF s[q] = "." /\ q < Len(s) /\ s[q + 1] = "." THEN RunEnd(s, q, {"."})
  ELSE IF s[q] = "U+2026" THEN q
  ELSE Combinations(s, RunEnd(s, q, Marks))

\* pattern.exec(text) with pattern.lastIndex = lastIndex: the match starts at
\* the first character that is no punctuation, [^.!?;:U+2026]+ runs up to the
\* next punctuation character, and the trailing \s* is part of the match
PatternExec(s, lastIndex) ==
  LET start == FirstIndex(s, lastIndex + 1, SeqToSet(s) \ Punctuation)
      q == IF start = 0 THEN 0 ELSE FirstIndex(s, start + 1, Punctuation)
  IN  IF q = 0 THEN [found |-> FALSE, group |-> <<>>, lastIndex |-> 0]
      ELSE [found |-> TRUE,
            group |-> SubSeq(s, start, PunctuationEnd(s, q)),
            lastIndex |-> RunEnd(s, PunctuationEnd(s, q) + 1, Whitespace)]

\* segments.push(x) under `if (x)`
PushIfAny(segments, x) == IF x # <<>> THEN Append(segments, x) ELSE segments

\* one turn of the while loop of splitByPunctuation
ExecLoop(s, lastIndex, segments) ==
  LET m == PatternExec(s, lastIndex) IN
  IF m.found
  THEN [found |-> TRUE, lastIndex |-> m.lastIndex,
        segments |-> PushIfAny(segments, Trim(m.group))]
  ELSE [found |-> FALSE, lastIndex |-> lastIndex, segments |-> segments]

\* after the loop: the remaining text, then the whole text if nothing was pushed
Remaining(s, lastIndex, segments) ==
  LET rest == PushIfAny(segments, Trim(SubSeq(s, lastIndex + 1, Len(s))))
  IN  IF rest = <<>> /\ Trim(s) # <<>> THEN <<Trim(s)>> ELSE rest

EndsWith(s, suffix) ==
  /\ Len(s) >= Len(suffix)
  /\ SubSeq(s, Len(s) - Len(suffix) + 1, Len(s)) = suffix

Includes(s, part) ==
  \E k \in 1..(Len(s) - Len(part) + 1) : SubSeq(s, k, k + Len(part) - 1) = part

Prosody(rate, volume, pitch) == [rate |-> rate, volume |-> volume, pitch |-> pitch]

getProsodyFromPunctuation(s) ==
  LET trimmedText == Trim(s) IN
  IF \/ EndsWith(trimmedText, <<"!", "!">>)
     \/ Includes(trimmedText, <<"!", "?">>)
     \/ Includes(trimmedText, <<"?", "!">>)
  THEN Prosody("+15%", "+40%", "+15Hz")
  ELSE IF EndsWith(trimmedText, <<"!">>) THEN Prosody("+10%", "+30%", "+10Hz")
  ELSE IF EndsWith(trimmedText, <<"?">>) THEN Prosody("+5%", "+10%", "+15Hz")
  ELSE IF EndsWith(trimmedText, <<".", ".">>) \/ EndsWith(trimmedText, <<"U+2026">>)
       THEN Prosody("-15%", "-10%", "-5Hz")
  ELSE IF EndsWith(trimmedText, <<":">>) THEN Prosody("-5%", "+5%", "+0Hz")
  ELSE IF EndsWith(trimmedText, <<";">>) THEN Prosody("-5%", "+0%", "+0Hz")
  ELSE Prosody("+0%", "+0%", "+0Hz")

\* textSegments.map(...): each text with the prosody of its punctuation
MapProsody(textSegments) ==
  [k \in DOMAIN textSegments |->
     [text |-> textSegments[k],
      rate |-> getProsodyFromPunctuation(textSegments[k]).rate,
      volume |-> getProsodyFromPunctuation(textSegments[k]).volume,
      pitch |-> getProsodyFromPunctuation(textSegments[k]).pitch]]

\* textToProsodySegments(narration) is called: splitByPunctuation starts
\* with a fresh pattern and no segment
TextToProsodySegments(narration) ==
  /\ text.call = "none"
  /\ text' = [call |-> "textToProsodySegments", pc |-> "exec", narration |-> narration,
              lastIndex |-> 0, segments |-> <<>>, result |-> <<>>]
  /\ UNCHANGED <<project, scenes, logs, stream, disk, queue, isProcessing, running,
                 enqOrder, startOrder, run, env, ffmpeg, keys, starts, stream, ai>>

\* while ((match = pattern.exec(text)) !== null) { ... }
SplitLoop ==
  LET m == ExecLoop(text.narration, text.lastIndex, text.segments) IN
  /\ text.call = "textToProsodySegments"
  /\ text.pc = "exec"
  /\ text' = [text EXCEPT !.pc = IF m.found THEN "exec" ELSE "rest",
                          !.lastIndex = m.lastIndex,
                          !.segments = m.segments]
  /\ UNCHANGED <<project, scenes, logs, stream, disk, queue, isProcessing, running,
                 enqOrder, startOrder, run, env, ffmpeg, keys, starts, stream, ai>>

\* the rest of splitByPunctuation, then the map of textToProsodySegments
SplitReturns ==
  /\ text.call = "textToProsodySegments"
  /\ text.pc = "rest"
  /\ text' = [text EXCEPT
                !.pc = "returned",
                !.segments = Remaining(text.narration, text.lastIndex, text.segments),
                !.result = MapProsody(Remaining(text.narration, text.lastIndex,
                                                text.segments))]
  /\ UNCHANGED <<project, scenes, logs, stream, disk, queue, isProcessing, running,
                 enqOrder, startOrder, run, env, ffmpeg, keys, starts, stream, ai>>

\* the caller has the segments; the next narration can be looked at
SegmentsTaken ==
  /\ text.call = "textToProsodySegments"
  /\ text.pc = "returned"
  /\ text' = NoCall
  /\ UNCHANGED <<project, scenes, logs, stream, disk, queue, isProcessing, running,
                 enqOrder, startOrder, run, env, ffmpeg, keys, starts, stream, ai>>

\* -------------------------------------------------- ApiKeyRollingService
Providers == {"gemini", "openai", "geminiTts"}

\* GEMINI_API_KEYS, OPENAI_API_KEYS, GEMINI_TTS_API_KEYS: the comma-separated
\* items of a setting, each holding a key (TRUE) or nothing but whitespace
KeySettings == [1..MaxKeys -> BOOLEAN]

\* initializeKeys: split(','), trim, filter(key.length > 0); a key is named by
\* the place of its item in the setting
InitializeKeys(items) ==
  SelectSeq([i \in 1..MaxKeys |-> i], LAMBDA i : items[i])

\* the service after its constructor ran with the three settings
Constructed(settings) ==
  [configured |-> TRUE,
   list |-> [x \in Providers |-> InitializeKeys(settings[x])],
   index |-> [x \in Providers |-> 0],
   calls |-> [x \in Providers |-> 0],
   returned |-> [x \in Providers |-> 0],
   thrown |-> ""]

\* an index that all providers share
SharedIndex(k, x) == k.index["gemini"]

\* this.geminiIndex, this.openaiIndex, this.geminiTtsIndex
IndexOf(k, x) == k.index[x]

Rotate(index, n) == (index + 1) % n

\* the body the three getNext...Key methods share, each on its own list and
\* index: the service after one call for provider x
NextKey(k, x) ==
  IF Len(k.list[x]) = 0
  THEN [k EXCEPT !.calls[x] = @ + 1, !.thrown = x]
  ELSE [k EXCEPT
          !.calls[x] = @ + 1,
          !.thrown = "",
          !.returned[x] = k.list[x][IndexOf(k, x) + 1],
          !.index[x] = Rotate(IndexOf(k, x), Len(k.list[x]))]

GetNextKey(x) ==
  /\ keys.configured
  /\ keys.calls[x] < MaxKeyCalls
  /\ keys' = NextKey(keys, x)
  /\ UNCHANGED <<project, scenes, logs, stream, disk, queue, isProcessing, running,
                 enqOrder, startOrder, run, env, ffmpeg, text, starts, ai>>

GetNextGeminiKey == GetNextKey("gemini")

GetNextOpenAIKey == GetNextKey("openai")

GetNextGeminiTtsKey == GetNextKey("geminiTts")

\* ------------------------------------------------------------- AiService
TextProviders == {"gemini", "openai"}

\* parseInt(configService.get('AI_MAX_RETRIES', '3')), a count of retries
AiSettings == 0..MaxAiRetries

\* the service after its constructor ran, with no request under way
AiConstructed(m) ==
  [pc |-> "idle", maxRetries |-> m, requested |-> "", frames |-> <<>>,
   failedKeys |-> {}, trace |-> <<>>, error |-> [provider |-> "", attempt |-> 0]]

\* the number of callGemini or callOpenAI calls a request has made so far
Made(a, x) == Len(SelectSeq(a.trace, LAMBDA y : y = x))

\* the frame of callAIWithRetry that runs
Top(a) == a.frames[Len(a.frames)]

\* alternateProvider
AlternateProvider(x) == IF x = "gemini" THEN "openai" ELSE "gemini"

\* hasGeminiKeys(), hasOpenAIKeys()
HasKeys(k, x) == Len(k.list[x]) > 0

\* a frame that catches an error with retryCount <= maxRetries
OneMoreRetry(frame, m) == frame.retryCount <= m

\* retryCount < this.maxRetries
RetriesLeft(frame, m) == frame.retryCount < m

\* hasAlternateKeys && !failedKeys.has(alternateProvider)
MaySwitch(a, k) ==
  /\ HasKeys(k, AlternateProvider(Top(a).provider))
  /\ AlternateProvider(Top(a).provider) \notin a.failedKeys

\* a frame of callAIWithRetry: what it calls, and how it was called
Frame(x, retryCount, via) ==
  [provider |-> x, retryCount |-> retryCount, via |-> via,
   error |-> [provider |-> "", attempt |-> 0]]

\* callAIWithRetry(prompt, provider): retryCount 0, a new failedKeys
CallAIWithRetry(x) ==
  /\ ai.pc = "idle"
  /\ ai' = [ai EXCEPT !.pc = "call", !.requested = x,
                      !.frames = <<Frame(x, 0, "root")>>]
  /\ UNCHANGED <<project, scenes, logs, stream, disk, queue, isProcessing, running,
                 enqOrder, startOrder, run, env, ffmpeg, text, keys, starts>>

\* callGemini or callOpenAI takes the next key and the provider answers: the
\* request resolves through every frame
ProviderResolves ==
  LET x == Top(ai).provider IN
  /\ ai.pc = "call"
  /\ HasKeys(keys, x)
  /\ keys' = NextKey(keys, x)
  /\ ai' = [ai EXCEPT !.pc = "returned", !.trace = Append(@, x), !.frames = <<>>]
  /\ UNCHANGED <<project, scenes, logs, stream, disk, queue, isProcessing, running,
                 enqOrder, startOrder, run, env, ffmpeg, text, starts>>

\* callGemini or callOpenAI throws, for want of a key or because the provider
\* call rejects: the frame catches the error
ProviderRejects ==
  LET x == Top(ai).provider IN
  /\ ai.pc = "call"
  /\ keys' = NextKey(keys, x)
  /\ ai' = [ai EXCEPT !.pc = "caught", !.trace = Append(@, x),
                      !.frames[Len(ai.frames)].error =
                         [provider |-> x, attempt |-> Made(ai, x) + 1]]
  /\ UNCHANGED <<project, scenes, logs, stream, disk, queue, isProcessing, running,
                 enqOrder, startOrder, run, env, ffmpeg, text, starts>>

\* catch, retryCount < maxRetries: sleep(retryDelay), then the same provider
RetrySameProvider ==
  /\ ai.pc = "caught"
  /\ RetriesLeft(Top(ai), ai.maxRetries)
  /\ ai' = [ai EXCEPT !.pc = "call",
                      !.frames = Append(@, Frame(Top(ai).provider,
                                                 Top(ai).retryCount + 1, "retry"))]
  /\ UNCHANGED <<project, scenes, logs, stream, disk, queue, isProcessing, running,
                 enqOrder, startOrder, run, env, ffmpeg, text, keys, starts>>

\* catch, retries used up: failedKeys.add(currentProvider), then the
\* alternate provider inside a try of its own
SwitchProvider ==
  /\ ai.pc = "caught"
  /\ ~RetriesLeft(Top(ai), ai.maxRetries)
  /\ MaySwitch(ai, keys)
  /\ ai' = [ai EXCEPT !.pc = "call",
                      !.failedKeys = @ \union {Top(ai).provider},
                      !.frames = Append(@, Frame(AlternateProvider(Top(ai).provider),
                                                 0, "switch"))]
  /\ UNCHANGED <<project, scenes, logs, stream, disk, queue, isProcessing, running,
                 enqOrder, startOrder, run, env, ffmpeg, text, keys, starts>>

\* catch, retries used up and no provider to switch to: throw error
ThrowError ==
  /\ ai.pc = "caught"
  /\ ~RetriesLeft(Top(ai), ai.maxRetries)
  /\ ~MaySwitch(ai, keys)
  /\ ai' = [ai EXCEPT !.pc = "unwind", !.error = Top(ai).error]
  /\ UNCHANGED <<project, scenes, logs, stream, disk, queue, isProcessing, running,
                 enqOrder, startOrder, run, env, ffmpeg, text, keys, starts>>

\* the error leaves a frame: the caller that retried passes it on (return
\* this.callAIWithRetry(...) in its catch block), the caller that switched
\* catches it as altError and throws its own error, the first caller gets it
Unwind ==
  LET n == Len(ai.frames)
      via == Top(ai).via
  IN
  /\ ai.pc = "unwind"
  /\ ai' = [ai EXCEPT
         !.frames = SubSeq(@, 1, n - 1),
         !.pc = IF via = "root" THEN "thrown" ELSE "unwind",
         !.error = IF via = "switch" THEN ai.frames[n - 1].error ELSE @]
  /\ UNCHANGED <<project, scenes, logs, stream, disk, queue, isProcessing, running,
                 enqOrder, startOrder, run, env, ffmpeg, text, keys, starts>>

\* ------------------------------------------------------------------ Next
\* the steps of an invocation when no collaborator fails
Steps ==
  \/ \E r \in Runs : GenerateMetadata(r)
  \/ \E r \in Runs : ReadExistingScenes(r)
  \/ \E r \in Runs : CreateScenes(r)
  \/ \E r \in Runs : GenerateCharacters(r)
  \/ \E r \in Runs : GenerateImagePrompts(r)
  \/ \E r \in Runs : GenerateProsody(r)
  \/ \E r \in Runs : BeginMedia(r)
  \/ \E r \in Runs : AudioEnqueue(r)
  \/ \E r \in Runs, d \in Durations, wb \in WordLists : SynthOk(r, d, wb)

Rendering ==
  \/ \E r \in Runs, i \in 1..(MaxBatches * NumScenes) : ImageDone(r, i)
  \/ \E r \in Runs : JoinOk(r)
  \/ \E r \in Runs : BeginRender(r)
  \/ \E r \in Runs : RenderScene(r)
  \/ \E r \in Runs : FinishRender(r)

AudioFailures ==
  \/ \E r \in Runs, kind \in ErrorKinds : ProsodyFails(r, kind)
  \/ \E r \in Runs, kind \in ErrorKinds : SynthFail(r, kind)
  \/ \E r \in Runs : RetryWaitDone(r)
  \/ \E r \in Runs : JoinFail(r)

OtherFailures ==
  \/ \E r \in Runs : TextGenerationThrows(r)
  \/ \E r \in Runs, i \in 1..(MaxBatches * NumScenes) : ImageFail(r, i)
  \/ \E r \in Runs : RenderThrows(r)
  \/ \E r \in Runs : ConcatThrows(r)

\* clients that wait for the service to be idle; every collaborator may fail;
\* the sweeper and the asset cleanup run at any time
Next ==
  \/ StartWhenIdle
  \/ \E p \in Projects : RetryWhenIdle(p)
  \/ Steps
  \/ Rendering
  \/ AudioFailures
  \/ OtherFailures
  \/ RecoverStuckProcesses
  \/ CleanupOldAssets

Spec == Init /\ [][Next]_vars

\* the service with its sweeper and the clock: a project may go without an
\* update for the timeout at any point, an invocation may stop stepping
NextSweeper ==
  \/ StartWhenIdle
  \/ Steps
  \/ Rendering
  \/ TimePasses
  \/ RecoverStale

\* setInterval(() => this.recoverStuckProcesses(), 5 * 60 * 1000): a pass
\* that has projects to recover is not put off for ever
SpecSweeper == Init /\ [][NextSweeper]_vars /\ WF_vars(RecoverStale)

\* the state right after the first POST /stories/start: project 1 is created
\* and its first invocation is about to run
InitOverlap ==
  /\ project = <<[NewProject EXCEPT !.projectSlug = generateSafeSlug(Topic(TopicDto))]>>
  /\ scenes = [p \in Projects |-> <<>>]
  /\ logs = [p \in Projects |-> IF p = 1 THEN {Info("PROJECT_STARTED")} ELSE {}]
  /\ stream = [p \in Projects |->
                 IF p = 1 THEN EmitLog([q \in Projects |-> NoStream], 1,
                                       {Info("PROJECT_STARTED")})[1]
                 ELSE NoStream]
  /\ disk = [image |-> [p \in Projects |-> {}],
             imageOf |-> [p \in Projects |-> [o \in Orders |-> 0]],
             audio |-> [p \in Projects |-> [o \in Orders |-> 0]],
             video |-> [p \in Projects |-> FALSE],
             srt |-> [p \in Projects |-> FALSE],
             subtitle |-> [p \in Projects |-> <<>>],
             concat |-> [p \in Projects |-> <<>>]]
  /\ queue = <<>>
  /\ isProcessing = FALSE
  /\ running = {}
  /\ enqOrder = <<>>
  /\ startOrder = <<>>
  /\ run = [r \in Runs |-> IF r = 1 THEN [IdleRun EXCEPT !.proj = 1, !.pc = "s1"]
                            ELSE IdleRun]
  /\ ffmpeg = NoCall
  /\ text = NoCall
  /\ starts = NoStarts
  /\ ai = NoAi
  /\ keys = NoKeys
  /\ env = [requests |-> MaxRuns - 1, durations |-> {1}, boundaries |-> {<<>>},
            errors |-> {"transient"},
            dtos |-> {TopicDto}, clocks |-> {Clock(5)}]

\* clients that ask again for the project at any time, also while an earlier
\* invocation is still at work; no collaborator fails
NextOverlap ==
  \/ \E p \in Projects : RetryGeneration(p)
  \/ Steps
  \/ Rendering

SpecOverlap == InitOverlap /\ [][NextOverlap]_vars

\* MaxBatches projects started at any time; speech synthesis may fail; image
\* generation is still under way
NextQueue ==
  \/ \E dto \in env.dtos : StartProject(dto)
  \/ Steps
  \/ AudioFailures

SpecQueue == InitQueue /\ [][NextQueue]_vars

\* the steps of the task that runs: a synthesizeSpeech call settles, the
\* retry timer fires
TaskSteps ==
  \/ \E r \in Runs, d \in Durations, wb \in WordLists : SynthOk(r, d, wb)
  \/ \E r \in Runs, kind \in ErrorKinds : ProsodyFails(r, kind)
  \/ \E r \in Runs, kind \in ErrorKinds : SynthFail(r, kind)
  \/ \E r \in Runs : RetryWaitDone(r)

\* the same service and requests, with one duration and one kind of error
InitTasks ==
  /\ project = <<>>
  /\ scenes = [p \in Projects |-> <<>>]
  /\ logs = [p \in Projects |-> {}]
  /\ stream = [p \in Projects |-> NoStream]
  /\ disk = [image |-> [p \in Projects |-> {}],
             imageOf |-> [p \in Projects |-> [o \in Orders |-> 0]],
             audio |-> [p \in Projects |-> [o \in Orders |-> 0]],
             video |-> [p \in Projects |-> FALSE],
             srt |-> [p \in Projects |-> FALSE],
             subtitle |-> [p \in Projects |-> <<>>],
             concat |-> [p \in Projects |-> <<>>]]
  /\ queue = <<>>
  /\ isProcessing = FALSE
  /\ running = {}
  /\ enqOrder = <<>>
  /\ startOrder = <<>>
  /\ run = [r \in Runs |-> IdleRun]
  /\ ffmpeg = NoCall
  /\ text = NoCall
  /\ starts = NoStarts
  /\ ai = NoAi
  /\ keys = NoKeys
  /\ env = [requests |-> MaxBatches, durations |-> {1}, boundaries |-> {<<>>},
            errors |-> {"transient"},
            dtos |-> {TopicDto}, clocks |-> {Clock(5)}]

\* every task terminates: the call under way settles, the timer fires
SpecTasks == InitTasks /\ [][NextQueue]_vars /\ WF_vars(TaskSteps)

\* a speech provider that reports word boundaries for some results and none
\* for others
InitSubtitles ==
  /\ project = <<>>
  /\ scenes = [p \in Projects |-> <<>>]
  /\ logs = [p \in Projects |-> {}]
  /\ stream = [p \in Projects |-> NoStream]
  /\ disk = [image |-> [p \in Projects |-> {}],
             imageOf |-> [p \in Projects |-> [o \in Orders |-> 0]],
             audio |-> [p \in Projects |-> [o \in Orders |-> 0]],
             video |-> [p \in Projects |-> FALSE],
             srt |-> [p \in Projects |-> FALSE],
             subtitle |-> [p \in Projects |-> <<>>],
             concat |-> [p \in Projects |-> <<>>]]
  /\ queue = <<>>
  /\ isProcessing = FALSE
  /\ running = {}
  /\ enqOrder = <<>>
  /\ startOrder = <<>>
  /\ run = [r \in Runs |-> IdleRun]
  /\ ffmpeg = NoCall
  /\ text = NoCall
  /\ starts = NoStarts
  /\ ai = NoAi
  /\ keys = NoKeys
  /\ env = [requests |-> MaxRuns, durations |-> Durations, boundaries |-> WordLists,
            errors |-> {"transient"},
            dtos |-> {TopicDto}, clocks |-> {Clock(5)}]

\* clients that wait for the service to be idle; speech synthesis may fail, so
\* that a later invocation resumes a project whose scenes are partly timed;
\* the asset cleanup runs at any time
NextSubtitles ==
  \/ StartWhenIdle
  \/ \E p \in Projects : RetryWhenIdle(p)
  \/ Steps
  \/ Rendering
  \/ AudioFailures
  \/ CleanupOldAssets

SpecSubtitles == InitSubtitles /\ [][NextSubtitles]_vars

\* the same clients and provider, with nothing but the service touching the
\* rows and the files
NextSubtitlesAlone ==
  \/ StartWhenIdle
  \/ \E p \in Projects : RetryWhenIdle(p)
  \/ Steps
  \/ Rendering
  \/ AudioFailures

SpecSubtitlesAlone == InitSubtitles /\ [][NextSubtitlesAlone]_vars

\* FfmpegService alone: one createSceneVideo or concatenateVideos call at a
\* time, over every revision, probed duration, animation plan and clip list
InitFfmpeg ==
  /\ project = <<>>
  /\ scenes = [p \in Projects |-> <<>>]
  /\ logs = [p \in Projects |-> {}]
  /\ stream = [p \in Projects |-> NoStream]
  /\ disk = [image |-> [p \in Projects |-> {}],
             imageOf |-> [p \in Projects |-> [o \in Orders |-> 0]],
             audio |-> [p \in Projects |-> [o \in Orders |-> 0]],
             video |-> [p \in Projects |-> FALSE],
             srt |-> [p \in Projects |-> FALSE],
             subtitle |-> [p \in Projects |-> <<>>],
             concat |-> [p \in Projects |-> <<>>]]
  /\ queue = <<>>
  /\ isProcessing = FALSE
  /\ running = {}
  /\ enqOrder = <<>>
  /\ startOrder = <<>>
  /\ run = [r \in Runs |-> IdleRun]
  /\ env = [requests |-> 0, durations |-> {}, boundaries |-> {}, errors |-> {}, dtos |-> {}, clocks |-> {}]
  /\ ffmpeg = NoCall
  /\ text = NoCall
  /\ starts = NoStarts
  /\ ai = NoAi
  /\ keys = NoKeys

NextFfmpeg ==
  \/ \E rev \in Revisions, probed \in ProbedDurations, first \in FirstFrameNumbers,
        ain \in AnimationsIn, ashow \in AnimationsShow, aout \in AnimationsOut :
       CreateSceneVideo(rev, probed,
                        [animationIn |-> ain, animationShow |-> ashow,
                         animationOut |-> aout], first)
  \/ ZoompanFrame
  \/ \E videoPaths \in ClipLists, present \in SUBSET (1..MaxClips),
        outcome \in {"end", "error"} :
       ConcatenateVideos(videoPaths, present, outcome)
  \/ Settled

SpecFfmpeg == InitFfmpeg /\ [][NextFfmpeg]_vars

\* the pipeline with clients that supply narrations, and a database that may
\* fail while the scene rows are created
InitNarrations ==
  /\ project = <<>>
  /\ scenes = [p \in Projects |-> <<>>]
  /\ logs = [p \in Projects |-> {}]
  /\ stream = [p \in Projects |-> NoStream]
  /\ disk = [image |-> [p \in Projects |-> {}],
             imageOf |-> [p \in Projects |-> [o \in Orders |-> 0]],
             audio |-> [p \in Projects |-> [o \in Orders |-> 0]],
             video |-> [p \in Projects |-> FALSE],
             srt |-> [p \in Projects |-> FALSE],
             subtitle |-> [p \in Projects |-> <<>>],
             concat |-> [p \in Projects |-> <<>>]]
  /\ queue = <<>>
  /\ isProcessing = FALSE
  /\ running = {}
  /\ enqOrder = <<>>
  /\ startOrder = <<>>
  /\ run = [r \in Runs |-> IdleRun]
  /\ ffmpeg = NoCall
  /\ text = NoCall
  /\ starts = NoStarts
  /\ ai = NoAi
  /\ keys = NoKeys
  /\ env = [requests |-> MaxRuns, durations |-> {1}, boundaries |-> {<<>>},
            errors |-> {"transient"},
            dtos |-> NarrationDtos \union {TopicDto}, clocks |-> {Clock(5)}]

NextNarrations ==
  \/ StartWhenIdle
  \/ \E p \in Projects : RetryWhenIdle(p)
  \/ Steps
  \/ Rendering
  \/ \E r \in Runs, k \in 0..NumScenes : CreateScenesThrows(r, k)

SpecNarrations == InitNarrations /\ [][NextNarrations]_vars

\* ------------------------------------------------- startProject, await by await
\* a client posts a request: startProject derives the topic and enters
\* generateUniqueSlug
StartProjectCalled(c, dto) ==
  /\ starts[c].pc = "idle"
  /\ \A b \in 1..(c - 1) : starts[b].pc # "idle"
  /\ dto \in env.dtos
  /\ starts' = [starts EXCEPT ![c] = [dto |-> dto] @@ FirstCandidate(Topic(dto))]
  /\ UNCHANGED <<project, scenes, logs, stream, disk, queue, isProcessing, running,
                 enqOrder, startOrder, run, env, ffmpeg, text, keys, ai>>

\* findFirst answers: the loop is left, or the next slug is built
SlugLookedUp(c) ==
  /\ starts[c].pc = "find"
  /\ \E clock \in env.clocks :
       starts' = [starts EXCEPT ![c] = LoopStep(@, project, clock)]
  /\ UNCHANGED <<project, scenes, logs, stream, disk, queue, isProcessing, running,
                 enqOrder, startOrder, run, env, ffmpeg, text, keys, ai>>

\* storyProject.create with the slug, the scenes of narrations mode, the log
ProjectCreated(c) ==
  LET dto == starts[c].dto
      narrationsMode == dto.storyMode = "narrations" /\ Len(dto.existingNarrations) > 0
      totalImages == IF narrationsMode THEN Len(dto.existingNarrations) ELSE NumScenes
  IN
  /\ starts[c].pc = "create"
  /\ project' = Append(project,
                  [NewProject EXCEPT !.totalImages = totalImages,
                                     !.storyMode = dto.storyMode,
                                     !.projectSlug = starts[c].slug])
  /\ scenes' = IF narrationsMode
               THEN [scenes EXCEPT ![Len(project) + 1] =
                       [i \in 1..Len(dto.existingNarrations) |->
                          NewScene(i, dto.existingNarrations[i])]]
               ELSE scenes
  /\ logs' = Log(logs, Len(project) + 1, {Info("PROJECT_STARTED")})
  /\ stream' = EmitLog(stream, Len(project) + 1, {Info("PROJECT_STARTED")})
  /\ starts' = [starts EXCEPT ![c].pc = "returned"]
  /\ UNCHANGED <<disk, queue, isProcessing, running, enqOrder, startOrder, run, env,
                 ffmpeg, text, keys, ai>>

InitSlugs ==
  /\ project = <<>>
  /\ scenes = [p \in Projects |-> <<>>]
  /\ logs = [p \in Projects |-> {}]
  /\ stream = [p \in Projects |-> NoStream]
  /\ disk = [image |-> [p \in Projects |-> {}],
             imageOf |-> [p \in Projects |-> [o \in Orders |-> 0]],
             audio |-> [p \in Projects |-> [o \in Orders |-> 0]],
             video |-> [p \in Projects |-> FALSE],
             srt |-> [p \in Projects |-> FALSE],
             subtitle |-> [p \in Projects |-> <<>>],
             concat |-> [p \in Projects |-> <<>>]]
  /\ queue = <<>>
  /\ isProcessing = FALSE
  /\ running = {}
  /\ enqOrder = <<>>
  /\ startOrder = <<>>
  /\ run = [r \in Runs |-> IdleRun]
  /\ ffmpeg = NoCall
  /\ text = NoCall
  /\ keys = NoKeys
  /\ starts = NoStarts
  /\ ai = NoAi
  /\ env = [requests |-> 0, durations |-> {}, boundaries |-> {}, errors |-> {},
            dtos |-> SlugDtos \union NarrationDtos, clocks |-> {Clock(5), Clock(12)}]

NextSlugs ==
  \/ \E c \in 1..MaxStarts, dto \in env.dtos : StartProjectCalled(c, dto)
  \/ \E c \in 1..MaxStarts : SlugLookedUp(c)
  \/ \E c \in 1..MaxStarts : ProjectCreated(c)

SpecSlugs == InitSlugs /\ [][NextSlugs]_vars

\* the pipeline with clients that follow the log stream of a project
InitLogs ==
  /\ project = <<>>
  /\ scenes = [p \in Projects |-> <<>>]
  /\ logs = [p \in Projects |-> {}]
  /\ stream = [p \in Projects |-> NoStream]
  /\ disk = [image |-> [p \in Projects |-> {}],
             imageOf |-> [p \in Projects |-> [o \in Orders |-> 0]],
             audio |-> [p \in Projects |-> [o \in Orders |-> 0]],
             video |-> [p \in Projects |-> FALSE],
             srt |-> [p \in Projects |-> FALSE],
             subtitle |-> [p \in Projects |-> <<>>],
             concat |-> [p \in Projects |-> <<>>]]
  /\ queue = <<>>
  /\ isProcessing = FALSE
  /\ running = {}
  /\ enqOrder = <<>>
  /\ startOrder = <<>>
  /\ run = [r \in Runs |-> IdleRun]
  /\ ffmpeg = NoCall
  /\ text = NoCall
  /\ starts = NoStarts
  /\ ai = NoAi
  /\ keys = NoKeys
  /\ env = [requests |-> 1, durations |-> {1}, boundaries |-> {<<>>},
            errors |-> {"transient"},
            dtos |-> {TopicDto}, clocks |-> {Clock(5)}]

\* one project is started and generated once; every collaborator may fail; the
\* sweeper runs at any time; clients come and go
NextLogs ==
  \/ StartWhenIdle
  \/ Steps
  \/ Rendering
  \/ AudioFailures
  \/ OtherFailures
  \/ RecoverStuckProcesses
  \/ \E p \in Projects : StreamLogs(p)
  \/ \E p \in Projects : Disconnect(p)

SpecLogs == InitLogs /\ [][NextLogs]_vars

\* ApiKeyRollingService alone, over every setting of the three key lists
InitKeys ==
  /\ project = <<>>
  /\ scenes = [p \in Projects |-> <<>>]
  /\ logs = [p \in Projects |-> {}]
  /\ stream = [p \in Projects |-> NoStream]
  /\ disk = [image |-> [p \in Projects |-> {}],
             imageOf |-> [p \in Projects |-> [o \in Orders |-> 0]],
             audio |-> [p \in Projects |-> [o \in Orders |-> 0]],
             video |-> [p \in Projects |-> FALSE],
             srt |-> [p \in Projects |-> FALSE],
             subtitle |-> [p \in Projects |-> <<>>],
             concat |-> [p \in Projects |-> <<>>]]
  /\ queue = <<>>
  /\ isProcessing = FALSE
  /\ running = {}
  /\ enqOrder = <<>>
  /\ startOrder = <<>>
  /\ run = [r \in Runs |-> IdleRun]
  /\ env = [requests |-> 0, durations |-> {}, boundaries |-> {}, errors |-> {}, dtos |-> {}, clocks |-> {}]
  /\ ffmpeg = NoCall
  /\ text = NoCall
  /\ starts = NoStarts
  /\ ai = NoAi
  /\ keys \in {Constructed(settings) : settings \in [Providers -> KeySettings]}

NextKeys ==
  \/ GetNextGeminiKey
  \/ GetNextOpenAIKey
  \/ GetNextGeminiTtsKey

SpecKeys == InitKeys /\ [][NextKeys]_vars

\* AiService alone, over every setting of the key lists and of maxRetries;
\* one request for either provider, every call of which may reject
InitAi ==
  /\ project = <<>>
  /\ scenes = [p \in Projects |-> <<>>]
  /\ logs = [p \in Projects |-> {}]
  /\ stream = [p \in Projects |-> NoStream]
  /\ disk = [image |-> [p \in Projects |-> {}],
             imageOf |-> [p \in Projects |-> [o \in Orders |-> 0]],
             audio |-> [p \in Projects |-> [o \in Orders |-> 0]],
             video |-> [p \in Projects |-> FALSE],
             srt |-> [p \in Projects |-> FALSE],
             subtitle |-> [p \in Projects |-> <<>>],
             concat |-> [p \in Projects |-> <<>>]]
  /\ queue = <<>>
  /\ isProcessing = FALSE
  /\ running = {}
  /\ enqOrder = <<>>
  /\ startOrder = <<>>
  /\ run = [r \in Runs |-> IdleRun]
  /\ env = [requests |-> 0, durations |-> {}, boundaries |-> {}, errors |-> {}, dtos |-> {}, clocks |-> {}]
  /\ ffmpeg = NoCall
  /\ text = NoCall
  /\ starts = NoStarts
  /\ ai \in {AiConstructed(m) : m \in AiSettings}
  /\ keys \in {Constructed(settings) : settings \in [Providers -> KeySettings]}

NextAi ==
  \/ \E x \in TextProviders : CallAIWithRetry(x)
  \/ ProviderResolves
  \/ ProviderRejects
  \/ RetrySameProvider
  \/ SwitchProvider
  \/ ThrowError
  \/ Unwind

\* every provider call settles, the sleep timer fires, and the continuation
\* of a settled await is run by the event loop
SpecAi == InitAi /\ [][NextAi]_vars /\ WF_vars(NextAi)

\* punctuation-splitter alone, over every text of the alphabet up to
\* MaxTextLen characters
InitText ==
  /\ project = <<>>
  /\ scenes = [p \in Projects |-> <<>>]
  /\ logs = [p \in Projects |-> {}]
  /\ stream = [p \in Projects |-> NoStream]
  /\ disk = [image |-> [p \in Projects |-> {}],
             imageOf |-> [p \in Projects |-> [o \in Orders |-> 0]],
             audio |-> [p \in Projects |-> [o \in Orders |-> 0]],
             video |-> [p \in Projects |-> FALSE],
             srt |-> [p \in Projects |-> FALSE],
             subtitle |-> [p \in Projects |-> <<>>],
             concat |-> [p \in Projects |-> <<>>]]
  /\ queue = <<>>
  /\ isProcessing = FALSE
  /\ running = {}
  /\ enqOrder = <<>>
  /\ startOrder = <<>>
  /\ run = [r \in Runs |-> IdleRun]
  /\ env = [requests |-> 0, durations |-> {}, boundaries |-> {}, errors |-> {}, dtos |-> {}, clocks |-> {}]
  /\ ffmpeg = NoCall
  /\ text = NoCall
  /\ starts = NoStarts
  /\ ai = NoAi
  /\ keys = NoKeys

NextText ==
  \/ \E narration \in Texts : TextToProsodySegments(narration)
  \/ SplitLoop
  \/ SplitReturns
  \/ SegmentsTaken

SpecText == InitText /\ [][NextText]_vars

\* ---------------------------------------------------------------- claims
\* the batches whose task is between its call and its settling
AtSynthesis == {r \in Runs : run[r].audSt = "running"}

\* C1: at most one queued task executes at any time: the synthesis calls, the
\* retries and the retry waits of two batches never overlap.
C1_OneTaskAtATime ==
  /\ Cardinality(running) <= 1
  /\ AtSynthesis = running
  /\ \A a \in AtSynthesis, b \in AtSynthesis : a = b

\* a batch waits in a retry delay while another project's batch is queued
C1_Witness ==
  \E a \in Runs :
    /\ run[a].audSt = "running"
    /\ run[a].phase = "wait"
    /\ \E k \in DOMAIN queue : run[queue[k]].proj # run[a].proj

\* C2: the queue is FIFO: tasks start in the order enqueue was called, and when
\* a task has started, every task enqueued before it has settled, so all its
\* synthesis calls are over.
C2_Fifo ==
  /\ Len(startOrder) <= Len(enqOrder)
  /\ \A k \in DOMAIN startOrder :
       /\ startOrder[k] = enqOrder[k]
       /\ \A j \in 1..(k - 1) : run[enqOrder[j]].audSt \notin {"queued", "running"}

\* a second batch runs after the first settled while a third one waits
C2_Witness ==
  /\ Len(startOrder) >= 2
  /\ run[startOrder[2]].audSt = "running"
  /\ run[startOrder[2]].synth # {}
  /\ run[startOrder[1]].synth # {}
  /\ queue # <<>>

\* C3: an invocation started on a project that an earlier invocation completed,
\* with no change to the rows or the files since, calls no text, image or
\* speech collaborator and enqueues nothing.
C3_Idempotent == \A r \in Runs : run[r].quiet => run[r].calls = {}

\* such a second invocation has run to its end
C3_Witness == \E r \in Runs : run[r].quiet /\ run[r].pc = "done"

\* C4: an invocation that resumes a project whose last run failed at scene 2
\* after scene 1 was synthesized calls speech synthesis for scene 2 only.
C4_ResumeOnlyFailedScene ==
  \A b \in Runs :
    LET a == run[b].resumes IN
    (/\ a # 0
     /\ run[a].err = [stage |-> "audio", scene |-> 2]
     /\ 1 \in run[a].synthOk
     /\ run[b].pc = "done")
    => /\ run[b].synth = {2}
       /\ project[run[b].proj].status = "COMPLETED"

\* the run reaches its catch block in this step, after a scene of its batch
\* failed on every attempt
EndsExhausted(r) ==
  /\ run'[r].pc = "failed" /\ run'[r].exhausted # 0
  /\ ~(run[r].pc = "failed" /\ run[r].exhausted # 0)

\* what the catch block leaves for a batch that failed at a scene
AudioFailureRecorded(r) ==
  LET p == run[r].proj IN
  /\ project'[p].status = "FAILED"
  /\ Entry("ERROR", "GENERATION_FAILED", "audio", run'[r].exhausted) \in logs'[p]
  /\ \A o \in run'[r].synthOk : disk'.audio[p][o] # 0

C6_ForwardOnly ==
  [][\A p \in 1..Len(project) :
       LET s == project[p].status
           t == project'[p].status
       IN  (s # t /\ s # "FAILED") =>
             \/ t = "FAILED" /\ s # "COMPLETED"
             \/ t # "FAILED" /\ StatusRank(s) < StatusRank(t)]_vars

\* C7: a COMPLETED project has a videoPath and a srtPath, and both files exist.
C7_CompletedHasFiles ==
  \A p \in 1..Len(project) :
    project[p].status = "COMPLETED" =>
      /\ project[p].videoPath /\ disk.video[p]
      /\ project[p].srtPath /\ disk.srt[p]

\* C8: overlapping invocations create the scene rows once: no two rows of a
\* project carry the same order.
C8_ScenesCreatedOnce ==
  \A p \in Projects :
    \A i \in DOMAIN scenes[p], j \in DOMAIN scenes[p] :
      i # j => scenes[p][i].order # scenes[p][j].order

\* C9: a COMPLETED project with N scene rows has the orders 1..N, and the clips
\* handed to concatenateVideos are one per scene in ascending order.
C9_OrderContiguity ==
  \A p \in 1..Len(project) :
    project[p].status = "COMPLETED" =>
      LET n == Len(scenes[p]) IN
      /\ {scenes[p][i].order : i \in DOMAIN scenes[p]} = 1..n
      /\ disk.concat[p] = [k \in 1..n |-> k]

\* C10: when the media stage of a run has succeeded, every scene ends at its
\* start plus the duration of its synthesized audio, and starts where the scene
\* before it ends.
C10_TimingContiguity ==
  \A r \in Runs :
    run[r].pc = "walked" =>
      LET p == run[r].proj
          m == FindMany(p)
      IN  \A k \in DOMAIN m :
            /\ m[k].endTimeMs = m[k].startTimeMs + disk.audio[p][m[k].order]
            /\ k > 1 => m[k].startTimeMs = m[k - 1].endTimeMs

\* the run writes subtitle.srt in this step
WritesSrt(r) == run[r].pc = "render" /\ run'[r].pc = "done"

\* speech synthesis reported at least one word boundary for the scene in run r
VoicedIn(r, id) ==
  \E h \in run[r].heard : h.sceneId = id /\ Len(h.wordBoundaries) > 0

\* the milliseconds a cue time stands for
SrtTimeToMs(t) ==
  t.hours * 3600000 + t.minutes * 60000 + t.seconds * 1000 + t.milliseconds

\* the file is the scene-level one of the rows m: cue k belongs to the k-th
\* scene by ascending order and spans its startTimeMs-endTimeMs
SceneLevel(file, m) ==
  /\ Len(file) = Len(m)
  /\ \A k \in DOMAIN file :
       /\ file[k].kind = "scene"
       /\ file[k].index = k
       /\ file[k].scene = m[k].id
       /\ SrtTimeToMs(file[k].startTime) = m[k].startTimeMs
       /\ SrtTimeToMs(file[k].endTime) = m[k].endTimeMs
       /\ k > 1 => m[k - 1].order <= m[k].order

\* C11: when a run writes the SRT and some scene of the project has no word
\* boundaries from this run (an empty list, or no synthesis in this run), the
\* file has one cue per scene, in ascending scene order, each spanning its
\* scene's startTimeMs-endTimeMs; and no SRT file mixes word and scene cues.
C11_SceneLevelFallback ==
  /\ [](\A p \in Projects :
          \A i \in DOMAIN disk.subtitle[p], j \in DOMAIN disk.subtitle[p] :
            disk.subtitle[p][i].kind = disk.subtitle[p][j].kind)
  /\ [][\A r \in Runs :
          LET p == run[r].proj IN
          (/\ WritesSrt(r)
           /\ \E i \in DOMAIN scenes[p] : ~VoicedIn(r, i))
          => SceneLevel(disk'.subtitle[p], FindMany(p))]_vars

\* a run got words for one scene and none for another, and wrote a
\* scene-level file
C11_Witness ==
  \E r \in Runs :
    LET p == run[r].proj IN
    /\ run[r].pc = "done"
    /\ \E a \in run[r].heard, b \in run[r].heard :
         Len(a.wordBoundaries) > 0 /\ Len(b.wordBoundaries) = 0
    /\ Len(disk.subtitle[p]) = NumScenes
    /\ \A k \in DOMAIN disk.subtitle[p] : disk.subtitle[p][k].kind = "scene"

\* the word boundaries speech synthesis reported for the scene in run r
HeardList(r, id) == (CHOOSE h \in run[r].heard : h.sceneId = id).wordBoundaries

\* the file holds word cues
IsWordLevel(file) == Len(file) > 0 /\ \A k \in DOMAIN file : file[k].kind = "word"

\* the file is the word-level one of run r: every scene row of the project got
\* words in this run, every word of every scene has its cue at the word's
\* offset plus startTimeMs * 10000 with the word's duration, there is no other
\* cue, and the offsets never decrease
WordLevel(file, r, p) ==
  /\ \A i \in DOMAIN scenes[p] :
       /\ VoicedIn(r, i)
       /\ Cardinality({k \in DOMAIN file : file[k].scene = i}) = Len(HeardList(r, i))
       /\ \A j \in DOMAIN HeardList(r, i) :
            \E k \in DOMAIN file :
              /\ file[k].scene = i
              /\ file[k].offset = HeardList(r, i)[j].offset
                                    + scenes[p][i].startTimeMs * 10000
              /\ file[k].duration = HeardList(r, i)[j].duration
  /\ \A k \in DOMAIN file : file[k].scene \in DOMAIN scenes[p]
  /\ \A k \in 1..(Len(file) - 1) : file[k].offset <= file[k + 1].offset

\* C12: a run writes a word-level SRT only when every scene produced at least
\* one word boundary in it; each word then stands at its offset in the scene
\* plus the scene's startTimeMs * 10000, with its duration unchanged, and the
\* merged list is sorted by increasing offset.
C12_WordTimedMode ==
  [][\A r \in Runs :
       LET p == run[r].proj IN
       (WritesSrt(r) /\ IsWordLevel(disk'.subtitle[p]))
       => WordLevel(disk'.subtitle[p], r, p)]_vars

\* a word-level file of two scenes in which the last word of the first scene
\* comes after the first word of the second scene
C12_Witness ==
  \E r \in Runs :
    LET p == run[r].proj
        file == disk.subtitle[p]
    IN  /\ run[r].pc = "done"
        /\ IsWordLevel(file)
        /\ Len(file) = 4
        /\ file[2].scene # file[1].scene
        /\ file[3].scene = file[1].scene

\* a branch of the media stage of run r has thrown
BranchThrew(r) == run[r].err.stage \in {"image", "audio"}

\* C13: when the image branch or the audio branch of a run throws, the run
\* never starts rendering (no createSceneVideo or concatenateVideos call, no
\* status RENDERING_VIDEO from it); its catch block leaves the project FAILED
\* and rolls back nothing: the scene rows, with the imagePaths written before
\* the failure, and the files stay as they are.
C13_JoinAllOrNothing ==
  /\ [](\A r \in Runs :
          BranchThrew(r) =>
            /\ run[r].pc \in {"join", "failed"}
            /\ run[r].clips = <<>>
            /\ run[r].concats = 0)
  /\ [][\A r \in Runs :
          (run[r].pc = "join" /\ run'[r].pc = "failed") =>
            /\ BranchThrew(r)
            /\ project'[run[r].proj].status = "FAILED"
            /\ scenes' = scenes
            /\ disk' = disk]_vars

\* the audio branch threw after an image was generated and its imagePath
\* written; the run has ended and the project is FAILED
C13_Witness ==
  \E r \in Runs :
    LET p == run[r].proj IN
    /\ run[r].pc = "failed"
    /\ run[r].err.stage = "audio"
    /\ project[p].status = "FAILED"
    /\ \E i \in DOMAIN scenes[p] :
         scenes[p][i].imagePath /\ scenes[p][i].order \in disk.image[p]

\* run r enters its catch block in this step
Fails(r) == run[r].pc \notin {"idle", "failed"} /\ run'[r].pc = "failed"

\* C14: the step in which a run fails changes only the status of its project,
\* to FAILED, and appends the error to the project's log (the log, kept as
\* the set of its entries, loses none): no scene row, no other column of the
\* project, no other project and no file changes.
C14_FailureFrame ==
  [][\A r \in Runs :
       Fails(r) =>
         LET p == run[r].proj IN
         /\ project' = [project EXCEPT ![p].status = "FAILED"]
         /\ scenes' = scenes
         /\ disk' = disk
         /\ logs[p] \subseteq logs'[p]
         /\ Entry("ERROR", "GENERATION_FAILED", run'[r].err.stage, run'[r].err.scene)
              \in logs'[p]
         /\ \A q \in Projects \ {p} : logs'[q] = logs[q]]_vars

\* a run has failed in the render stage: the title, the images with their
\* imagePaths and the audio files of the earlier stages are all there
C14_Witness ==
  \E r \in Runs :
    LET p == run[r].proj IN
    /\ run[r].pc = "failed"
    /\ run[r].err.stage = "render"
    /\ project[p].status = "FAILED"
    /\ project[p].titleGenerated /\ project[p].characterDescriptions
    /\ \A i \in DOMAIN scenes[p] :
         /\ scenes[p][i].imagePath /\ scenes[p][i].order \in disk.image[p]
         /\ scenes[p][i].audioPath /\ disk.audio[p][scenes[p][i].order] # 0
    /\ Len(scenes[p]) = NumScenes

\* the delays 2000 ms * k of the failed attempts 1..n
GrowingDelays(n) == [k \in 1..n |-> 2000 * k]

\* C15: a batch makes at most 3 attempts for a scene; the next attempt comes
\* only after a wait, and the wait after the failed attempt k < 3 is
\* 2000 ms * k; after the third failure the batch rejects: it is no longer the
\* running task, makes no further attempt and has attempted no later scene.
C15_BoundedRetries ==
  /\ [](\A r \in Runs :
          /\ run[r].audSt = "running" =>
               /\ run[r].attempt \in 1..3
               /\ run[r].phase \in {"call", "plain"} =>
                    run[r].waited = GrowingDelays(run[r].attempt - 1)
               /\ run[r].phase = "wait" =>
                    /\ run[r].attempt < 3
                    /\ run[r].waited = GrowingDelays(run[r].attempt)
          /\ run[r].exhausted # 0 =>
               /\ run[r].audSt # "running"
               /\ r \notin running
               /\ \A o \in run[r].synth : o <= run[r].exhausted)
  /\ [][\A r \in Runs :
          /\ (run[r].audSt = "running" /\ run'[r].attempt = run[r].attempt + 1)
               => run[r].phase = "wait"
          /\ (run[r].audSt = "running" /\ run[r].attempt = 3
               /\ run[r].phase = "plain" /\ run'[r].phase # "plain")
               => \/ run'[r].exhausted = CurrentOrder(r)
                  \/ CurrentOrder(r) \in run'[r].synthOk
          /\ run[r].exhausted # 0 => run'[r].synth = run[r].synth]_vars

\* the first of two scenes failed three times: the run has ended, the second
\* scene was never attempted
C15_Witness ==
  \E r \in Runs :
    /\ run[r].pc = "failed"
    /\ run[r].exhausted = 1
    /\ run[r].synth = {1}
    /\ Len(scenes[run[r].proj]) = NumScenes
    /\ r \notin running

\* C16: once speech synthesis has raised a fatal error (authentication, quota)
\* for the scene a batch is at, the batch neither waits for a retry nor starts
\* another attempt for that scene.  (The fallback call on the plain narration
\* inside the same attempt is not counted here.)
C16_FatalNotRetried ==
  \A r \in Runs :
    (run[r].audSt = "running" /\ run[r].fatal) =>
      /\ run[r].phase # "wait"
      /\ run[r].attempt = 1

\* C17: when createSceneVideo rejects for a scene, the run is over: it called
\* createSceneVideo once for that scene and for no scene after it, it does not
\* call concatenateVideos, the project is set to FAILED in that step and the
\* run never completes.
C17_RenderFailureFatal ==
  /\ [](\A r \in Runs :
          run[r].err.stage = "render" =>
            /\ run[r].pc = "failed"
            /\ run[r].concats = 0
            /\ run[r].clips # <<>>
            /\ run[r].clips[Len(run[r].clips)] = run[r].err.scene
            /\ Cardinality({k \in DOMAIN run[r].clips :
                              run[r].clips[k] = run[r].err.scene}) = 1)
  /\ [][\A r \in Runs :
          (run[r].err.stage # "render" /\ run'[r].err.stage = "render") =>
            /\ project'[run[r].proj].status = "FAILED"
            /\ disk'.video = disk.video]_vars

\* createSceneVideo rejected for the first of two scenes: the second one was
\* never rendered
C17_Witness ==
  \E r \in Runs :
    /\ run[r].err = [stage |-> "render", scene |-> 1]
    /\ run[r].clips = <<1>>
    /\ Len(scenes[run[r].proj]) = NumScenes
    /\ project[run[r].proj].status = "FAILED"

\* C18: concatenateVideos with a clip missing at some index rejects with an
\* error that names that index and never resolves; with every clip present,
\* when it resolves, the output is the clips in the given order.
C18_ConcatNamesMissingIndex ==
  ffmpeg.call = "concatenateVideos" =>
    LET m == FirstMissing(ffmpeg.videoPaths, ffmpeg.present) IN
    /\ m # 0 => (ffmpeg.settled = "rejected" /\ ffmpeg.error.index = m)
    /\ (m = 0 /\ ffmpeg.settled = "resolved") => ffmpeg.output = ffmpeg.videoPaths

\* the zoompan filter of the call is a zoom over at least two frames
ZoomingOverFrames ==
  /\ ffmpeg.call = "createSceneVideo"
  /\ ffmpeg.filters.zoompan.animation \in ZoomShows
  /\ ffmpeg.filters.zoompan.d >= 2

\* zoomStart and zoomEnd of the zoompan filter, as numerators over 1000 * d
ZoomStart(zp) == IF zp.animation = "zoom-out" THEN (1000 + zp.range) * zp.d ELSE 1000 * zp.d
ZoomEnd(zp) == IF zp.animation = "zoom-out" THEN 1000 * zp.d ELSE (1000 + zp.range) * zp.d

Distance(a, b) == IF a >= b THEN a - b ELSE b - a

\* C19: over a window of F frames the zoom of zoom-slow, zoom-in and zoom-out
\* moves by the same delta |zoomEnd - zoomStart| / F from one frame to the
\* next unless it is clamped at zoomEnd; the first frame is at zoomStart (or
\* one delta after it), frame F is at zoomEnd (or one delta before it), and
\* zoom-out starts above 1.0.
C19_ZoomLinear ==
  /\ [](ZoomingOverFrames =>
          LET zp == ffmpeg.filters.zoompan IN
          /\ ffmpeg.frame = 1 =>
               /\ Distance(ffmpeg.zoom, ZoomStart(zp)) <= zp.range
               /\ zp.animation = "zoom-out" => ffmpeg.zoom > 1000 * zp.d
          /\ ffmpeg.frame = zp.d => Distance(ffmpeg.zoom, ZoomEnd(zp)) <= zp.range)
  /\ [][(ZoomingOverFrames /\ ffmpeg.frame >= 1 /\ ffmpeg'.call = "createSceneVideo") =>
          \/ Distance(ffmpeg'.zoom, ffmpeg.zoom) = ffmpeg.filters.zoompan.range
          \/ ffmpeg'.zoom = ZoomEnd(ffmpeg.filters.zoompan)]_vars

\* C20: for every audio duration d and animation plan, the entrance fade, the
\* main window and the exit fade do not overlap and cover [0, d]: the main
\* window is d minus the time of each enabled fade and strictly positive, its
\* frame count floor(length * 24) is positive, and the exit fade starts at d
\* minus the fade time.
C20_WindowsPartition ==
  ffmpeg.call = "createSceneVideo" =>
    LET f == ffmpeg.filters
        d == ffmpeg.duration
        tin == IF f.fadeIn.on THEN f.fadeIn.d ELSE 0
        tout == IF f.fadeOut.on THEN f.fadeOut.d ELSE 0
    IN  /\ f.effectiveDuration = d - tin - tout
        /\ f.effectiveDuration > 0
        /\ (f.effectiveDuration * 24) \div 1000 > 0
        /\ f.zoompan.animation # "" => f.zoompan.d = (f.effectiveDuration * 24) \div 1000
        /\ f.fadeIn.on => f.fadeIn.st = 0
        /\ f.fadeOut.on => f.fadeOut.st = d - tout
        /\ tin <= d - tout

\* textToProsodySegments has returned
SegmentsReturned == text.call = "textToProsodySegments" /\ text.pc = "returned"

RECURSIVE JoinTexts(_)
JoinTexts(segments) ==
  IF segments = <<>> THEN <<>> ELSE Head(segments).text \o JoinTexts(Tail(segments))

NonWhitespace(s) == SelectSeq(s, LAMBDA c : c \notin Whitespace)

\* C21: the segments textToProsodySegments returns, concatenated in order,
\* reconstitute the narration: the non-whitespace characters of the
\* concatenation are those of the narration, each once, in the same order
C21_SegmentsReconstitute ==
  SegmentsReturned =>
    NonWhitespace(JoinTexts(text.result)) = NonWhitespace(text.narration)

\* the prosody the claim gives to a text that ends with the punctuation it
\* names (no requirement for another ending)
StatedProsody(s) ==
  IF EndsWith(s, <<"!", "!">>) THEN {Prosody("+5%", "+15%", "+5Hz")}
  ELSE IF EndsWith(s, <<"!">>) THEN {Prosody("+3%", "+10%", "+3Hz")}
  ELSE IF EndsWith(s, <<"?">>) THEN {Prosody("+2%", "+5%", "+5Hz")}
  ELSE IF EndsWith(s, <<".", ".", ".">>) \/ EndsWith(s, <<"U+2026">>)
       THEN {Prosody("-5%", "-3%", "-2Hz")}
  ELSE IF EndsWith(s, <<".">>) /\ ~EndsWith(s, <<".", ".">>)
       THEN {Prosody("+0%", "+0%", "+0Hz")}
  ELSE {}

\* C24: every segment of the result carries the prosody of its ending
\* punctuation: '!' +3% +10% +3Hz, two or more '!' +5% +15% +5Hz,
\* '?' +2% +5% +5Hz, an ellipsis -5% -3% -2Hz, a period +0% +0% +0Hz
C24_ProsodyOfPunctuation ==
  SegmentsReturned =>
    \A k \in DOMAIN text.result :
      LET seg == text.result[k] IN
      StatedProsody(seg.text) # {} =>
        Prosody(seg.rate, seg.volume, seg.pitch) \in StatedProsody(seg.text)

\* the segments are pieces of s that follow each other in s
InTextOrder(s, segments) ==
  \E at \in [DOMAIN segments -> 1..Len(s)] :
    \A k \in DOMAIN segments :
      /\ SubSeq(s, at[k], at[k] + Len(segments[k]) - 1) = segments[k]
      /\ k > 1 => at[k - 1] + Len(segments[k - 1]) <= at[k]

\* no punctuation inside the segment is followed by text
EndsAtPunctuation(segment) ==
  \A i, j \in DOMAIN segment :
    (i < j /\ segment[i] \in Punctuation) => segment[j] \in Punctuation \union Whitespace

\* C25: splitByPunctuation cuts after each run of sentence-ending punctuation
\* and keeps the punctuation with the segment it ends: every segment is
\* non-empty and trimmed, the segments follow each other in the text, none
\* goes on after its punctuation, a text without punctuation gives its
\* trimmed text as the only segment (none if nothing is left of it), and the
\* empty text gives no segment
C25_CutAfterEachRun ==
  SegmentsReturned =>
    LET s == text.narration
        segments == text.segments
    IN
    /\ \A k \in DOMAIN segments : segments[k] # <<>> /\ Trim(segments[k]) = segments[k]
    /\ InTextOrder(s, segments)
    /\ \A k \in DOMAIN segments : EndsAtPunctuation(segments[k])
    /\ SeqToSet(s) \cap Punctuation = {} => segments = PushIfAny(<<>>, Trim(s))
    /\ s = <<>> => segments = <<>>

\* C22: every change of a project's status, also the change to FAILED by a
\* failing run or by the sweeper, comes with a log entry of the project that
\* is in the store and was emitted to the project's stream: after the step
\* every stored entry of the project has been emitted, and the project has an
\* entry that was; the step is taken whether or not somebody observes
C22_StatusChangesLogged ==
  [][\A p \in 1..Len(project) :
       project'[p].status # project[p].status =>
         /\ logs[p] \subseteq logs'[p]
         /\ logs'[p] # {}
         /\ logs'[p] \subseteq stream'[p].emitted]_vars

\* the k-th call (k = 0, 1, ...) of a provider with n keys returns the key
\* at position k mod n of its list
RoundRobin(x) ==
  LET n == Len(keys.list[x]) IN
  n >= 1 =>
    /\ keys.index[x] \in 0..(n - 1)
    /\ keys.index[x] = keys.calls[x] % n
    /\ keys.calls[x] >= 1 =>
         keys.returned[x] = keys.list[x][((keys.calls[x] - 1) % n) + 1]

\* C23: key rotation is round-robin per provider: with n >= 1 keys the k-th
\* call returns the key at position k mod n, the index stays in 0..n-1, and a
\* call of one provider leaves the index of the others alone; with no key
\* the call throws and changes no index and returns no key
C23_RoundRobinKeys ==
  /\ [](keys.configured => \A x \in Providers : RoundRobin(x))
  /\ [][\A x \in Providers :
          (keys.configured /\ keys'.calls[x] # keys.calls[x]) =>
            /\ \A y \in Providers \ {x} :
                 keys'.index[y] = keys.index[y] /\ keys'.returned[y] = keys.returned[y]
            /\ Len(keys.list[x]) = 0 =>
                 /\ keys'.thrown = x
                 /\ keys'.index = keys.index
                 /\ keys'.returned = keys.returned
            /\ Len(keys.list[x]) > 0 => keys'.thrown = ""]_vars

\* the Gemini index has wrapped around two keys while the OpenAI index, on
\* two keys as well, was advanced once, and Gemini TTS has no key and threw
C23_Witness ==
  /\ keys.configured
  /\ Len(keys.list["gemini"]) = 2 /\ keys.calls["gemini"] = 3
  /\ keys.returned["gemini"] = keys.list["gemini"][1]
  /\ Len(keys.list["openai"]) = 2 /\ keys.calls["openai"] = 1
  /\ Len(keys.list["geminiTts"]) = 0 /\ keys.thrown = "geminiTts"

\* C26: with k >= 1 supplied narrations startProject creates exactly k scenes,
\* of order 1..k, with the supplied texts in input order, and sets the
\* requested scene count to k; afterwards no invocation for the project comes
\* to generate narrations and no scene is added to it
C26_NarrationsMode ==
  [][/\ \A dto \in NarrationDtos :
          (Len(dto.existingNarrations) >= 1 /\ StartProject(dto)) =>
            LET p == Len(project')
                k == Len(dto.existingNarrations)
            IN  /\ Len(scenes'[p]) = k
                /\ \A i \in 1..k : /\ scenes'[p][i].order = i
                                   /\ scenes'[p][i].narration = dto.existingNarrations[i]
                /\ project'[p].totalImages = k
     /\ \A p \in 1..Len(project) :
          (project[p].storyMode = "narrations" /\ Len(scenes[p]) >= 1) =>
            /\ Len(scenes'[p]) = Len(scenes[p])
            /\ \A r \in Runs : run'[r].proj = p => run'[r].pc # "narr"]_vars

\* the positions of an invocation after its narration stage
PastNarrationStage == {"s25", "s3", "s4", "s5", "join", "render", "done"}

\* C30: once the narration stage of a project is over, the project has as
\* many scenes as were requested (totalImages), also after an invocation was
\* interrupted while it created the scene rows and generation was invoked again
C30_SceneCountIsRequested ==
  \A r \in Runs :
    run[r].pc \in PastNarrationStage =>
      Len(scenes[run[r].proj]) = project[run[r].proj].totalImages

\* C28: an invocation that resumes a project whose last run synthesized the
\* audio of every scene and ended on a throwing image branch makes no
\* speech-synthesis call.
C28_AudioSurvivesImageFailure ==
  \A b \in Runs :
    LET a == run[b].resumes IN
    (/\ a # 0
     /\ run[a].err.stage = "image"
     /\ run[a].synthOk = {scenes[run[a].proj][i].order : i \in 1..Len(scenes[run[a].proj])}
     /\ run[b].pc = "done")
    => run[b].synth = {}

\* C29: an invocation that was in flight when the sweeper marked its project
\* FAILED does not move the project out of FAILED afterwards.
C29_SweptStaysFailed ==
  [][\A r \in Runs :
       (/\ run[r].swept
        /\ run'[r] # run[r]
        /\ project[run[r].proj].status = "FAILED")
       => project'[run[r].proj].status = "FAILED"]_vars

\* C27: no two stored projects have the same projectSlug, however the
\* startProject calls interleave
C27_SlugsDiffer ==
  \A p, q \in 1..Len(project) :
    p # q => project[p].projectSlug # project[q].projectSlug

\* C31: when the subtitle file of a completed project is word-timed, an
\* invocation that writes the file again, nothing else having touched the
\* project, writes it word-timed again
C31_ModeDecidedOnce ==
  [][\A r \in Runs :
       LET p == run[r].proj IN
       (/\ WritesSrt(r)
        /\ disk.srt[p]
        /\ IsWordLevel(disk.subtitle[p]))
       => IsWordLevel(disk'.subtitle[p])]_vars

\* the step of invocation r from one position to the next
Moves(r, from, to) == run[r].pc = from /\ run'[r].pc = to

\* the rows of project p are left as they are, but for the column of scenes
\* of todo, which is filled
FillsOnly(p, todo, column) ==
  /\ DOMAIN scenes'[p] = DOMAIN scenes[p]
  /\ \A i \in DOMAIN scenes[p] :
       \/ scenes'[p][i] = scenes[p][i]
       \/ i \in todo /\ scenes'[p][i] = [scenes[p][i] EXCEPT ![column] = TRUE]
  /\ todo # {} => scenes'[p] # scenes[p]

Enqueues(r) == Len(enqOrder') = Len(enqOrder) + 1 /\ enqOrder'[Len(enqOrder')] = r

\* C33: an invocation enqueues at most one audio batch; the batch is the list
\* of all scenes that lack audio, in ascending order, and it is not empty;
\* speech synthesis is called for a scene of the batch only after every
\* scene before it in the list has succeeded.
C33_OneBatchInOrder ==
  [][\A r \in Runs :
       LET p == run[r].proj
           rows == scenes[p]
           batch == run[r].needAudio
           noAudio == {i \in DOMAIN rows :
                         ~rows[i].audioPath \/ disk.audio[p][rows[i].order] = 0}
       IN
       /\ Moves(r, "s5", "join") =>
            /\ SeqToSet(run'[r].needAudio) = noAudio
            /\ \A j, k \in DOMAIN run'[r].needAudio :
                 j < k => rows[run'[r].needAudio[j]].order < rows[run'[r].needAudio[k]].order
       /\ Enqueues(r) =>
            /\ r \notin SeqToSet(enqOrder)
            /\ batch # <<>>
            /\ run'[r].needAudio = batch
       /\ run[r].proj # 0 =>
            \A o \in run'[r].synth \ run[r].synth :
              \E k \in DOMAIN batch :
                /\ rows[batch[k]].order = o
                /\ \A j \in 1..(k - 1) : rows[batch[j]].order \in run[r].synthOk]_vars

\* a batch of two scenes has been synthesized, scene by scene
C33_Witness ==
  \E r \in Runs :
    /\ r \in SeqToSet(enqOrder)
    /\ run[r].synthOk = Orders
    /\ run[r].audSt = "none"
    /\ run[r].pc = "done"

\* the step in which the worker of invocation r for scene id has generated
\* the image and updated the row
WorkerDone(r, id) ==
  /\ id \in run[r].pending
  /\ id \notin run'[r].pending
  /\ scenes' # scenes \/ disk' # disk

\* the imagePath of scene i of project p is set, and the file it names was
\* generated from the image prompt of scene i
OwnImage(p, i) ==
  /\ scenes'[p][i].imagePath
  /\ scenes'[p][i].order \in disk'.image[p]
  /\ disk'.imageOf[p][scenes'[p][i].order] = i

\* C34: whatever the order in which the image workers complete, a worker
\* writes the imagePath of its own scene and no other column or row, the path
\* being that of the file generated from the scene's own prompt; when the
\* branch has succeeded, every scene of the snapshot has its own image.
C34_OwnImagePath ==
  [][\A r \in Runs :
       LET p == run[r].proj IN
       /\ \A id \in run[r].pending :
            WorkerDone(r, id) =>
              /\ scenes' = [scenes EXCEPT ![p][id].imagePath = TRUE]
              /\ OwnImage(p, id)
       /\ (run[r].imgSt = "running" /\ run'[r].imgSt = "done") =>
            \A k \in DOMAIN run[r].media : OwnImage(p, run[r].media[k].id)]_vars

\* the scene at position j of the snapshot is the first one after position k
\* that the walk writes: untimed, with an audio result, and with nothing but
\* untimed scenes without a result in between
NextWritten(media, results, k, j) ==
  /\ j > k
  /\ ~HasTiming(media[j])
  /\ HasResult(results, media[j].id)
  /\ \A m \in (k + 1)..(j - 1) :
       ~HasTiming(media[m]) /\ ~HasResult(results, media[m].id)

\* C35: in the timing walk a scene that already has startTimeMs and
\* endTimeMs keeps both values, and the next scene the walk writes starts at
\* that scene's endTimeMs.
C35_TimedScenesKept ==
  [][\A r \in Runs :
       Moves(r, "join", "walked") =>
         LET p == run[r].proj
             media == run[r].media
             results == run[r].results
         IN \A k \in DOMAIN media :
              HasTiming(media[k]) =>
                /\ scenes'[p][media[k].id].startTimeMs = media[k].startTimeMs
                /\ scenes'[p][media[k].id].endTimeMs = media[k].endTimeMs
                /\ scenes[p][media[k].id].startTimeMs = media[k].startTimeMs
                /\ scenes[p][media[k].id].endTimeMs = media[k].endTimeMs
                /\ \A j \in DOMAIN media :
                     NextWritten(media, results, k, j) =>
                       scenes'[p][media[j].id].startTimeMs = media[k].endTimeMs]_vars

\* a walk has written a scene synthesized by its invocation right where a
\* scene that the invocation did not synthesize, timed before it, ends
C35_Witness ==
  \E r \in Runs :
    LET rows == scenes[run[r].proj]
        synthesized == {h.sceneId : h \in run[r].heard}
    IN /\ run[r].pc = "walked"
       /\ \E i, j \in DOMAIN rows :
            /\ i \notin synthesized
            /\ j \in synthesized
            /\ HasTiming(rows[i])
            /\ rows[i].endTimeMs > 0
            /\ rows[j].startTimeMs = rows[i].endTimeMs

\* row b is row a with the same order and nothing that a holds taken away
KeepsRow(a, b) ==
  /\ b.order = a.order
  /\ b.narration = a.narration
  /\ a.imagePrompt => b.imagePrompt
  /\ a.prosodyData => b.prosodyData
  /\ a.imagePath => b.imagePath
  /\ a.audioPath => b.audioPath
  /\ a.startTimeMs # NULL => b.startTimeMs = a.startTimeMs
  /\ a.endTimeMs # NULL => b.endTimeMs = a.endTimeMs

\* C36: no step of the system deletes a scene row, changes its order, or
\* clears or changes a column of it that is filled; a step only fills columns
\* that were empty.
C36_RowsOnlyGrow ==
  [][\A p \in Projects :
       \A i \in DOMAIN scenes[p] :
         /\ i \in DOMAIN scenes'[p]
         /\ KeepsRow(scenes[p][i], scenes'[p][i])]_vars

\* project p exists, is neither COMPLETED nor FAILED, and has gone without an
\* update for longer than the timeout
StaleNonTerminal(p) ==
  /\ p <= Len(project)
  /\ project[p].status \notin {"COMPLETED", "FAILED"}
  /\ project[p].stale

\* project p has been recovered by the sweeper, or it has been updated
SweptOrUpdated(p) ==
  /\ p <= Len(project)
  /\ \/ /\ project[p].status = "FAILED"
        /\ Entry("ERROR", "PROCESS_TIMEOUT", "", 0) \in logs[p]
     \/ ~project[p].stale

\* a pass of the sweeper leaves alone the projects that are COMPLETED or
\* FAILED and the ones updated within the timeout
SweeperSpares ==
  RecoverStale =>
    \A p \in 1..Len(project) :
      (project[p].status \in {"COMPLETED", "FAILED"} \/ ~project[p].stale) =>
        project'[p] = project[p] /\ logs'[p] = logs[p]

\* C37: a project that stays in a status other than COMPLETED and FAILED
\* without an update for longer than the timeout is set to FAILED, with an
\* ERROR entry in its log, by a pass of the sweeper; a pass never modifies a
\* project that is COMPLETED or FAILED or was updated within the timeout.
C37_SweeperRecovers ==
  /\ \A p \in Projects : StaleNonTerminal(p) ~> SweptOrUpdated(p)
  /\ [][SweeperSpares]_vars

\* the calls of a request: first the requested provider, at most
\* maxRetries + 1 times, then the alternate one, at most maxRetries + 1 times
\* and only when it has keys and the requested one has been called
\* maxRetries + 1 times
CallsInOrder ==
  ai.pc \notin {"none", "idle"} =>
    LET a == Made(ai, ai.requested)
        b == Made(ai, AlternateProvider(ai.requested))
    IN /\ a <= ai.maxRetries + 1
       /\ b <= ai.maxRetries + 1
       /\ \A i \in DOMAIN ai.trace :
            ai.trace[i] = (IF i <= a THEN ai.requested
                           ELSE AlternateProvider(ai.requested))
       /\ b > 0 => /\ a = ai.maxRetries + 1
                   /\ HasKeys(keys, AlternateProvider(ai.requested))

\* the error of a request that has thrown is the one of the last call to the
\* requested provider
ThrowsOriginalError ==
  ai.pc = "thrown" =>
    ai.error = [provider |-> ai.requested, attempt |-> ai.maxRetries + 1]

\* C38: a callAIWithRetry request settles; it calls the requested provider at
\* most maxRetries + 1 times, then the other provider at most maxRetries + 1
\* times and only if that one has keys, never the requested one again; the
\* error it throws is an error of the requested provider.
C38_RequestSettles ==
  /\ [](CallsInOrder /\ ThrowsOriginalError)
  /\ (ai.pc = "call") ~> (ai.pc \in {"returned", "thrown"})

\* both providers have failed maxRetries + 1 times, more than once each, and
\* the request has thrown
C38_Witness ==
  /\ ai.pc = "thrown"
  /\ ai.maxRetries > 0
  /\ Made(ai, "gemini") = ai.maxRetries + 1
  /\ Made(ai, "openai") = ai.maxRetries + 1

\* the task of batch t settles in this step
TaskSettles(t) == t \in running /\ t \notin running'

\* every task enqueued and not yet started is in the queue, and a queue that
\* holds a task has a loop at work on another one
QueueServed ==
  /\ \A r \in Runs :
       r \in SeqToSet(enqOrder) => r \in SeqToSet(queue) \/ r \in SeqToSet(startOrder)
  /\ queue # <<>> => isProcessing /\ running # {}

\* the promise of batch t settles with the results of its own scenes or with
\* the error of its own scene, no other promise settles with it, and the
\* batch at the head of the queue is started, the others staying queued
SettlesOwn(t) ==
  /\ run'[t].audSt \in {"done", "failed"}
  /\ run'[t].audSt = "done" =>
       [k \in DOMAIN run'[t].results |-> run'[t].results[k].sceneId] = run[t].needAudio
  /\ run'[t].audSt = "failed" =>
       run'[t].err = [stage |-> "audio", scene |-> CurrentOrder(t)]
  /\ \A q \in Runs \ {t} :
       /\ run'[q].audSt \in {"done", "failed"} => run'[q].audSt = run[q].audSt
       /\ run'[q].err = run[q].err
  /\ queue # <<>> =>
       /\ Head(queue) \in running'
       /\ queue' = Tail(queue)

\* C39: every task enqueued is started and its promise settles, with its own
\* result or error, whenever the enqueue calls arrive, given that each task
\* terminates; a task that rejects neither stops nor rejects the ones behind.
C39_NoTaskLost ==
  /\ \A r \in Runs :
       (r \in SeqToSet(enqOrder)) ~>
         /\ r \in SeqToSet(startOrder)
         /\ r \notin running
         /\ run[r].audSt \in {"done", "failed"}
  /\ []QueueServed
  /\ [][\A t \in Runs : TaskSettles(t) => SettlesOwn(t)]_vars

\* a batch has been rejected and the batch queued behind it while it ran has
\* been started and resolved
C39_Witness ==
  \E a, b \in Runs :
    /\ run[a].audSt = "failed"
    /\ run[b].audSt = "done"
    /\ \E i, j \in DOMAIN startOrder :
         i < j /\ startOrder[i] = a /\ startOrder[j] = b
    /\ \E i, j \in DOMAIN enqOrder :
         i < j /\ enqOrder[i] = a /\ enqOrder[j] = b

====
